---- MODULE Spec2Model ----
(***************************************************************************)
(* TrendPoster: the draft queue (trendposter/queue.py), the scheduler's    *)
(* analyse/gate/post cycle (trendposter/scheduler.py), the model-response  *)
(* parser (trendposter/llm/base.py), the poster (trendposter/poster.py)    *)
(* and the triggers that start cycles (cli.py, telegram_bot.py,            *)
(* discord_bot.py).                                                        *)
(*                                                                         *)
(* Every coroutine is cut at its await points: the code between two awaits *)
(* runs on one asyncio event loop without interruption and is one action.  *)
(***************************************************************************)
EXTENDS Integers, Sequences, FiniteSets, TLC

VARIABLES
    config,     \* Config, fixed after load_config
    tweets,     \* table tweets: row i has id i (AUTOINCREMENT, rows are never deleted)
    post_log,   \* table post_log, in insertion order
    cyc,        \* per task: where its run_cycle / rank_cycle coroutine is suspended
    last,       \* history: what the step just taken did (caller-visible result and calls made)
    scraper,    \* a TrendScraper.get_trends call: what its sources answer, how far it is
    parsing,    \* a model reply handed to parse_analysis_response, bare and fenced
    bot         \* the bot object: the chat it notifies, its rate-limit stamp, the clock it reads

vars == <<config, tweets, post_log, cyc, last, scraper, parsing, bot>>

-----------------------------------------------------------------------------
(* Bounds of the model *)

\* rows the tweets table may hold
MaxTweets == 2
\* chat-command handler tasks that may be in flight at once
MaxHandlers == 1
\* the configured max_queue_size (MAX_QUEUE_SIZE in the environment)
MaxQueueSize == 2

(* Program constants *)

\* the length limit of a tweet
MaxTweetLen == 280
\* ScheduleConfig defaults
PostingHoursStart == 8
PostingHoursEnd == 22
MinRelevanceScore == 40

-----------------------------------------------------------------------------
(* Values *)

\* texts are strings; Len is len()
Text280 == "yyyyyyyyyyyyyyyyyyyyyyyyyyyyyyyyyyyyyyyyyyyyyyyyyyyyyyyyyyyyyyyyyyyyyyyyyyyyyyyyyyyyyyyyyyyyyyyyyyyyyyyyyyyyyyyyyyyyyyyyyyyyyyyyyyyyyyyyyyyyyyyyyyyyyyyyyyyyyyyyyyyyyyyyyyyyyyyyyyyyyyyyyyyyyyyyyyyyyyyyyyyyyyyyyyyyyyyyyyyyyyyyyyyyyyyyyyyyyyyyyyyyyyyyyyyyyyyyyyyyyyyyyyyyyyyyyyyyyyyy"
LongText == "xxxxxxxxxxxxxxxxxxxxxxxxxxxxxxxxxxxxxxxxxxxxxxxxxxxxxxxxxxxxxxxxxxxxxxxxxxxxxxxxxxxxxxxxxxxxxxxxxxxxxxxxxxxxxxxxxxxxxxxxxxxxxxxxxxxxxxxxxxxxxxxxxxxxxxxxxxxxxxxxxxxxxxxxxxxxxxxxxxxxxxxxxxxxxxxxxxxxxxxxxxxxxxxxxxxxxxxxxxxxxxxxxxxxxxxxxxxxxxxxxxxxxxxxxxxxxxxxxxxxxxxxxxxxxxxxxxxxxxxxx"
ShortText == "AI is changing everything"
\* what a chat user may type after /queue (the empty string: no argument)
TypedTexts == {"", ShortText, Text280, LongText}

NoMedia == "nomedia"

\* Python's None, as a return value or a field
None == [kind |-> "none"]

\* no call of the function is being followed
NoCall == [kind |-> "nocall"]

\* the fields of the bot object are not followed
NoBot == [kind |-> "nobot"]

\* the hours of the day a cycle may start at (local time in the configured zone):
\* the last one before the default window, its first, the first one after it
Hours == {PostingHoursStart - 1, PostingHoursStart, PostingHoursEnd}

\* what TrendScraper.get_trends may hand back: nothing, or trends in rank order
TrendResults == {<<>>, <<[name |-> "AI"], [name |-> "Rust"]>>}

Timer == 0
Handlers == 1..MaxHandlers
Procs == {Timer} \cup Handlers

-----------------------------------------------------------------------------
(* trendposter/queue.py: TweetQueue *)

\* a nullable column holding x
Some(x) == [v |-> x]

\* datetime.now(timezone.utc): the wall clock is read once in add and once in
\* mark_posted, and each of the two inserts one row into one of the tables, so the
\* rows in both tables count the readings taken so far. A reading is later than
\* every reading before it (every call commits to the database file in between);
\* only the order of the readings is used, so a reading is modelled by its number.
Now(tw, log) == Len(tw) + Len(log) + 1

\* the row INSERTed by add
NewRow(text, media_path, now) ==
    [text |-> text, added_at |-> now, posted_at |-> None, status |-> "queued",
     media_path |-> media_path, relevance_score |-> None, matched_trend |-> None]

\* (mutant) the id is the number of drafts waiting: an id freed by remove or
\* mark_posted is handed out again
LastRowId_ReusesFreed(tw) == Cardinality({i \in 1..Len(tw) : tw[i].status = "queued"})

\* cursor.lastrowid after the INSERT: AUTOINCREMENT gives one more than the largest
\* id the table ever held, and no row is ever deleted
LastRowId(tw) == Len(tw)

\* TweetQueue.add: INSERT, no condition on the text
QueueAdd(tw, text, media_path, now) == Append(tw, NewRow(text, media_path, now))

\* the rows as QueuedTweet objects, id included
AsQueuedTweets(tw) ==
    [i \in 1..Len(tw) |-> [id |-> i, text |-> tw[i].text, added_at |-> tw[i].added_at,
                           media_path |-> tw[i].media_path, status |-> tw[i].status]]

IsQueuedRow(t) == t.status = "queued"

\* ORDER BY added_at ASC: x goes behind every row that is not later than it
RECURSIVE InsertByAddedAt(_, _)
InsertByAddedAt(sorted, x) ==
    IF Len(sorted) = 0 THEN <<x>>
    ELSE IF Head(sorted).added_at <= x.added_at
         THEN <<Head(sorted)>> \o InsertByAddedAt(Tail(sorted), x)
         ELSE <<x>> \o sorted

RECURSIVE OrderByAddedAt(_)
OrderByAddedAt(rows) ==
    IF Len(rows) = 0 THEN <<>>
    ELSE InsertByAddedAt(OrderByAddedAt(SubSeq(rows, 1, Len(rows) - 1)), rows[Len(rows)])

\* (mutant) ORDER BY added_at DESC
ListQueued_NewestFirst(tw) ==
    LET q == OrderByAddedAt(SelectSeq(AsQueuedTweets(tw), IsQueuedRow)) IN
    [i \in 1..Len(q) |-> q[Len(q) + 1 - i]]

\* TweetQueue.list_queued: WHERE status = 'queued' ORDER BY added_at ASC
ListQueued(tw) == OrderByAddedAt(SelectSeq(AsQueuedTweets(tw), IsQueuedRow))

\* TweetQueue.queue_size: COUNT(*) WHERE status = 'queued'
QueueSize(tw) == Cardinality({i \in 1..Len(tw) : tw[i].status = "queued"})

\* (mutant) UPDATE ... WHERE id = ?, whatever the status
RemoveMatches_AnyStatus(tw, id) == id \in 1..Len(tw)

\* TweetQueue.remove: the rows the UPDATE ... WHERE id = ? AND status = 'queued' matches
RemoveMatches(tw, id) == id \in 1..Len(tw) /\ tw[id].status = "queued"

\* (mutant) the UPDATE of remove also blanks the text of the row
QueueRemove_Rewrites(tw, id) ==
    IF RemoveMatches(tw, id) THEN [tw EXCEPT ![id].status = "removed", ![id].text = ""]
    ELSE tw

\* TweetQueue.remove: the table afterwards; the call returns rowcount > 0
QueueRemove(tw, id) ==
    IF RemoveMatches(tw, id) THEN [tw EXCEPT ![id].status = "removed"] ELSE tw

\* TweetQueue._get_text
GetText(tw, id) == IF id \in 1..Len(tw) THEN tw[id].text ELSE ""

\* (mutant) the UPDATE of mark_posted sets everything but the status
MarkPostedTweets_KeepsStatus(tw, id, trend, score, now) ==
    IF id \in 1..Len(tw)
    THEN [tw EXCEPT ![id].posted_at = Some(now),
                    ![id].matched_trend = trend,
                    ![id].relevance_score = Some(score)]
    ELSE tw

\* TweetQueue.mark_posted, first statement: UPDATE tweets ... WHERE id = ?
\* (whatever the row's status; no row: nothing changes)
MarkPostedTweets(tw, id, trend, score, now) ==
    IF id \in 1..Len(tw)
    THEN [tw EXCEPT ![id].status = "posted",
                    ![id].posted_at = Some(now),
                    ![id].matched_trend = trend,
                    ![id].relevance_score = Some(score)]
    ELSE tw

\* (mutant) the log row is written without the score
MarkPostedLog_DropsScore(log, tw, id, score, reasoning, trends_json, now) ==
    Append(log, [tweet_id |-> id, tweet_text |-> GetText(tw, id), trends |-> trends_json,
                 reasoning |-> reasoning, relevance_score |-> 0, posted_at |-> now])

\* TweetQueue.mark_posted, second statement: INSERT INTO post_log
MarkPostedLog(log, tw, id, score, reasoning, trends_json, now) ==
    Append(log, [tweet_id |-> id, tweet_text |-> GetText(tw, id), trends |-> trends_json,
                 reasoning |-> reasoning, relevance_score |-> score, posted_at |-> now])

\* ORDER BY posted_at DESC: x goes behind every entry that is not earlier than it
RECURSIVE InsertByPostedAtDesc(_, _)
InsertByPostedAtDesc(sorted, x) ==
    IF Len(sorted) = 0 THEN <<x>>
    ELSE IF Head(sorted).posted_at >= x.posted_at
         THEN <<Head(sorted)>> \o InsertByPostedAtDesc(Tail(sorted), x)
         ELSE <<x>> \o sorted

RECURSIVE OrderByPostedAtDesc(_)
OrderByPostedAtDesc(rows) ==
    IF Len(rows) = 0 THEN <<>>
    ELSE InsertByPostedAtDesc(OrderByPostedAtDesc(SubSeq(rows, 1, Len(rows) - 1)),
                              rows[Len(rows)])

\* the default of get_post_history's limit
HistoryLimit == 10

\* TweetQueue.get_post_history: ORDER BY posted_at DESC LIMIT ?
GetPostHistory(log, limit) ==
    LET rows == OrderByPostedAtDesc(log) IN
    IF Len(rows) > limit THEN SubSeq(rows, 1, limit) ELSE rows

-----------------------------------------------------------------------------
(* JSON values and the text of a model reply *)

\* a JSON value is null (None), or a one-field record naming its type
JNull == None
JBool(b) == [bool |-> b]
JInt(n) == [int |-> n]
JStr(x) == [str |-> x]
JArr(q) == [arr |-> q]
JObj(f) == [obj |-> f]

IsNull(j) == DOMAIN j = {"kind"}
IsBool(j) == DOMAIN j = {"bool"}
IsInt(j) == DOMAIN j = {"int"}
IsStr(j) == DOMAIN j = {"str"}
IsArr(j) == DOMAIN j = {"arr"}
IsObj(j) == DOMAIN j = {"obj"}

\* Python truthiness of a decoded JSON value
Truthy(j) ==
    IF IsNull(j) THEN FALSE
    ELSE IF IsBool(j) THEN j.bool
    ELSE IF IsInt(j) THEN j.int # 0
    ELSE IF IsStr(j) THEN j.str # ""
    ELSE IF IsArr(j) THEN Len(j.arr) > 0
    ELSE DOMAIN j.obj # {}

\* dict.get(key, default) on a decoded object
Get(data, key, default) == IF key \in DOMAIN data.obj THEN data.obj[key] ELSE default

\* the decimal strings the model may send in place of a number
NumStr == [x \in {"85"} |-> 85]

\* int(j) raises (TypeError for null, a list, an object; ValueError for a non-numeric string)
IntRaises(j) ==
    IF IsInt(j) \/ IsBool(j) THEN FALSE
    ELSE IF IsStr(j) THEN j.str \notin DOMAIN NumStr
    ELSE TRUE

\* int(j) where it does not raise
IntOf(j) ==
    IF IsInt(j) THEN j.int
    ELSE IF IsBool(j) THEN (IF j.bool THEN 1 ELSE 0)
    ELSE NumStr[j.str]

\* A reply is a sequence of tokens: a ``` fence, a run of blanks, a line break, a
\* word (the language tag of a fence), the serialisation of a JSON value, or text
\* that is not JSON.
TFence == [fence |-> TRUE]
TBlank == [ws |-> TRUE]
TNewline == [nl |-> TRUE]
TWord(w) == [word |-> w]
TJson(j) == [json |-> j]
TJunk == [junk |-> TRUE]

IsSpace(t) == DOMAIN t = {"ws"} \/ DOMAIN t = {"nl"}
IsFence(t) == DOMAIN t = {"fence"}
IsNewline(t) == DOMAIN t = {"nl"}

RECURSIVE LStrip(_)
LStrip(q) == IF Len(q) > 0 /\ IsSpace(Head(q)) THEN LStrip(Tail(q)) ELSE q

RECURSIVE RStrip(_)
RStrip(q) ==
    IF Len(q) > 0 /\ IsSpace(q[Len(q)]) THEN RStrip(SubSeq(q, 1, Len(q) - 1)) ELSE q

\* str.strip()
Strip(q) == RStrip(LStrip(q))

\* the tokens after the first line break: text.split("\n", 1)[1]
RECURSIVE AfterFirstNewline(_)
AfterFirstNewline(q) ==
    IF IsNewline(Head(q)) THEN Tail(q) ELSE AfterFirstNewline(Tail(q))

HasNewline(q) == \E i \in 1..Len(q) : IsNewline(q[i])

\* (mutant) only the three backticks are cut from the front, never the rest of
\* the opening line
StripFence_FenceOnly(response_text) ==
    LET text == Strip(response_text) IN
    IF Len(text) > 0 /\ IsFence(Head(text))
    THEN LET body == Tail(text)
             cut == IF Len(body) > 0 /\ IsFence(body[Len(body)])
                    THEN SubSeq(body, 1, Len(body) - 1) ELSE body
         IN  Strip(cut)
    ELSE text

\* the markdown unwrapping both parsers start with
StripFence(response_text) ==
    LET text == Strip(response_text) IN
    IF Len(text) > 0 /\ IsFence(Head(text))
    THEN LET body == IF HasNewline(text) THEN AfterFirstNewline(text) ELSE Tail(text)
             cut == IF Len(body) > 0 /\ IsFence(body[Len(body)])
                    THEN SubSeq(body, 1, Len(body) - 1) ELSE body
         IN  Strip(cut)
    ELSE text

\* json.loads: one JSON value, blanks around it allowed; anything else is a JSONDecodeError
JsonDecodes(text) == LET q == Strip(text) IN Len(q) = 1 /\ DOMAIN q[1] = {"json"}

JsonLoads(text) == Strip(text)[1].json

-----------------------------------------------------------------------------
(* trendposter/llm/base.py *)

\* an exception leaving a function
Raise(exc) == [kind |-> "raise", exc |-> exc]

\* the {"id", "text"} dicts the scheduler hands to the provider
TweetsForLLM(queued) ==
    [i \in 1..Len(queued) |-> [id |-> queued[i].id, text |-> queued[i].text]]

InTweets(tws, id) == \E i \in 1..Len(tws) : tws[i].id = id

\* next((t["text"] for t in tweets if t["id"] == tweet_id), "")
TextOf(tws, id) ==
    IF InTweets(tws, id)
    THEN tws[CHOOSE i \in 1..Len(tws) :
                    tws[i].id = id /\ \A k \in 1..(i - 1) : tws[k].id # id].text
    ELSE ""

TweetAnalysis(tweet_id, tweet_text, relevance_score, matched_trend, reasoning, should_post) ==
    [kind |-> "analysis", tweet_id |-> tweet_id, tweet_text |-> tweet_text,
     relevance_score |-> relevance_score, matched_trend |-> matched_trend,
     reasoning |-> reasoning, should_post |-> should_post]

\* (mutant) the id is tested for truth, not against None
ParseAnalysisResponse_FalsyId(response_text, tws) ==
    LET text == StripFence(response_text) IN
    IF ~JsonDecodes(text) THEN None
    ELSE LET data == JsonLoads(text) IN
         IF ~IsObj(data) THEN Raise("AttributeError")
         ELSE IF \/ ~Truthy(Get(data, "should_post", JNull))
                 \/ ~Truthy(Get(data, "best_tweet_id", JNull))
              THEN None
         ELSE LET tweet_id == data.obj["best_tweet_id"].int
                  score == Get(data, "relevance_score", JInt(0))
              IN  IF IntRaises(score)
                  THEN Raise(IF IsStr(score) THEN "ValueError" ELSE "TypeError")
                  ELSE TweetAnalysis(tweet_id, TextOf(tws, tweet_id), IntOf(score),
                                     Get(data, "matched_trend", JStr("")),
                                     Get(data, "reasoning", JStr("")),
                                     Truthy(Get(data, "should_post", JBool(FALSE))))

\* parse_analysis_response: None, a TweetAnalysis, or an exception its except clause
\* (JSONDecodeError, KeyError, StopIteration) does not name.
\* best_tweet_id is an integer or null in every reply considered.
ParseAnalysisResponse(response_text, tws) ==
    LET text == StripFence(response_text) IN
    IF ~JsonDecodes(text) THEN None
    ELSE LET data == JsonLoads(text) IN
         IF ~IsObj(data) THEN Raise("AttributeError")
         ELSE IF \/ ~Truthy(Get(data, "should_post", JNull))
                 \/ IsNull(Get(data, "best_tweet_id", JNull))
              THEN None
         ELSE LET tweet_id == data.obj["best_tweet_id"].int
                  score == Get(data, "relevance_score", JInt(0))
              IN  IF IntRaises(score)
                  THEN Raise(IF IsStr(score) THEN "ValueError" ELSE "TypeError")
                  ELSE TweetAnalysis(tweet_id, TextOf(tws, tweet_id), IntOf(score),
                                     Get(data, "matched_trend", JStr("")),
                                     Get(data, "reasoning", JStr("")),
                                     Truthy(Get(data, "should_post", JBool(FALSE))))

\* (mutant) x goes ahead of the entries with its own score
RECURSIVE InsertDesc_AheadOfTies(_, _)
InsertDesc_AheadOfTies(sorted, x) ==
    IF Len(sorted) = 0 THEN <<x>>
    ELSE IF Head(sorted).relevance_score > x.relevance_score
         THEN <<Head(sorted)>> \o InsertDesc_AheadOfTies(Tail(sorted), x)
         ELSE <<x>> \o sorted

\* list.sort(key=relevance_score, reverse=True) is stable: x goes behind every
\* entry whose score is at least its own
RECURSIVE InsertDesc(_, _)
InsertDesc(sorted, x) ==
    IF Len(sorted) = 0 THEN <<x>>
    ELSE IF Head(sorted).relevance_score >= x.relevance_score
         THEN <<Head(sorted)>> \o InsertDesc(Tail(sorted), x)
         ELSE <<x>> \o sorted

RECURSIVE SortDesc(_)
SortDesc(results) ==
    IF Len(results) = 0 THEN <<>>
    ELSE InsertDesc(SortDesc(SubSeq(results, 1, Len(results) - 1)), results[Len(results)])

\* r.get("matched_trend") or ""
TrendOrEmpty(r) ==
    LET x == Get(r, "matched_trend", JNull) IN IF Truthy(x) THEN x ELSE JStr("")

\* (mutant) an entry is kept whether its id names a draft or not
RECURSIVE RankLoop_KeepsUnknown(_, _, _, _)
RankLoop_KeepsUnknown(rankings, i, tws, acc) ==
    IF i > Len(rankings) THEN [kind |-> "list", items |-> acc]
    ELSE LET r == rankings[i] IN
         IF ~IsObj(r) THEN Raise("TypeError")
         ELSE IF "id" \notin DOMAIN r.obj THEN Raise("KeyError")
         ELSE LET tid == r.obj["id"].int
                  score == Get(r, "relevance_score", JInt(0))
              IN  IF IntRaises(score)
                  THEN Raise(IF IsStr(score) THEN "ValueError" ELSE "TypeError")
                  ELSE RankLoop_KeepsUnknown(rankings, i + 1, tws,
                                Append(acc, TweetAnalysis(tid, TextOf(tws, tid),
                                                          IntOf(score), TrendOrEmpty(r),
                                                          Get(r, "reasoning", JStr("")),
                                                          IntOf(score) > 0)))

\* the loop of parse_ranking_response over the entries from index i on; acc holds the
\* results so far. An id is an integer in every entry considered that has one.
RECURSIVE RankLoop(_, _, _, _)
RankLoop(rankings, i, tws, acc) ==
    IF i > Len(rankings) THEN [kind |-> "list", items |-> acc]
    ELSE LET r == rankings[i] IN
         IF ~IsObj(r) THEN Raise("TypeError")
         ELSE IF "id" \notin DOMAIN r.obj THEN Raise("KeyError")
         ELSE LET tid == r.obj["id"].int
                  score == Get(r, "relevance_score", JInt(0))
              IN  IF ~InTweets(tws, tid) THEN RankLoop(rankings, i + 1, tws, acc)
                  ELSE IF IntRaises(score)
                       THEN Raise(IF IsStr(score) THEN "ValueError" ELSE "TypeError")
                  ELSE RankLoop(rankings, i + 1, tws,
                                Append(acc, TweetAnalysis(tid, TextOf(tws, tid),
                                                          IntOf(score), TrendOrEmpty(r),
                                                          Get(r, "reasoning", JStr("")),
                                                          IntOf(score) > 0)))

\* parse_ranking_response: a list of TweetAnalysis, or an exception its except
\* clause (JSONDecodeError, KeyError) does not name
ParseRankingResponse(response_text, tws) ==
    LET text == StripFence(response_text) IN
    IF ~JsonDecodes(text) THEN [kind |-> "list", items |-> <<>>]
    ELSE LET data == JsonLoads(text) IN
         IF ~IsObj(data) THEN Raise("AttributeError")
         ELSE LET rankings == Get(data, "rankings", JArr(<<>>)) IN
              IF IsArr(rankings)
              THEN LET res == RankLoop(rankings.arr, 1, tws, <<>>) IN
                   IF res.kind = "list" THEN [kind |-> "list", items |-> SortDesc(res.items)]
                   ELSE IF res.exc = "KeyError" THEN [kind |-> "list", items |-> <<>>]
                   ELSE res
              ELSE IF ~Truthy(rankings) /\ (IsStr(rankings) \/ IsObj(rankings))
                   THEN [kind |-> "list", items |-> <<>>]
              ELSE Raise("TypeError")

\* What awaiting provider.complete(prompt) gives: an exception, or the reply text
CompleteRaised == [raised |-> TRUE]
Reply(response_text) == [reply |-> response_text]
IsRaised(resp) == DOMAIN resp = {"raised"}

\* (mutant) when complete raises, the first draft is put forward with a full score
AnalyzeTweets_GuessesOnFailure(resp, tws) ==
    IF Len(tws) = 0 THEN None
    ELSE IF IsRaised(resp)
         THEN TweetAnalysis(tws[1].id, tws[1].text, 100, JStr(""), JStr(""), TRUE)
    ELSE LET a == ParseAnalysisResponse(resp.reply, tws) IN
         IF a.kind = "raise" THEN None ELSE a

\* BaseLLMProvider.analyze_tweets: any exception becomes None
AnalyzeTweets(resp, tws) ==
    IF Len(tws) = 0 THEN None
    ELSE IF IsRaised(resp) THEN None
    ELSE LET a == ParseAnalysisResponse(resp.reply, tws) IN
         IF a.kind = "raise" THEN None ELSE a

\* BaseLLMProvider.rank_tweets: any exception becomes []
RankTweets(resp, tws) ==
    IF Len(tws) = 0 THEN <<>>
    ELSE IF IsRaised(resp) THEN <<>>
    ELSE LET r == ParseRankingResponse(resp.reply, tws) IN
         IF r.kind = "raise" THEN <<>> ELSE r.items

-----------------------------------------------------------------------------
(* trendposter/poster.py: XPoster *)

\* XPoster.post returns (does not raise). It raises ValueError on a text over the
\* limit; it sends text and media only when they are non-empty, and a request
\* with neither has no content, which the platform refuses like any request it
\* rejects (platformOk false: media upload or create_tweet raised).
PostSucceeds(text, media_path, platformOk) ==
    /\ ~(text # "" /\ Len(text) > MaxTweetLen)
    /\ (text # "" \/ media_path # NoMedia)
    /\ platformOk

-----------------------------------------------------------------------------
(* trendposter/scheduler.py: Scheduler *)

\* (mutant) the window is checked against its start only
IsPostingHour_StartOnly(cfg, hour) == cfg.posting_hours_start <= hour

\* (mutant) a window whose start is not before its end is read as one that runs
\* over midnight
IsPostingHour_OverMidnight(cfg, hour) ==
    IF cfg.posting_hours_start < cfg.posting_hours_end
    THEN cfg.posting_hours_start <= hour /\ hour < cfg.posting_hours_end
    ELSE cfg.posting_hours_start <= hour \/ hour < cfg.posting_hours_end

\* Scheduler._is_posting_hour
IsPostingHour(cfg, hour) ==
    cfg.posting_hours_start <= hour /\ hour < cfg.posting_hours_end

\* what awaiting the notify callback does: it returns, it raises, or no callback
\* was set (cli.py --scheduler-only starts no bot) and _notify awaits nothing
Callbacks == {"ok", "raises", "unset"}

\* (mutant) _notify without its try/except: a failing callback raises
NotifyRaises_Propagates(cb) == cb = "raises"

\* (mutant) _notify without its test of the callback: awaiting the one never set
\* raises out of it
NotifyRaises_WhenUnset(cb) == cb = "unset"

\* Scheduler._notify lets an exception of the callback out: never (except Exception)
NotifyRaises(cb) == FALSE

\* json.dumps([{"name": t.name} for t in trends]): the names, in order
TrendsJson(trends) == [i \in 1..Len(trends) |-> trends[i].name]

\* what one step of a Scheduler operation did, beside the tables it leaves
Effect(outcome, ret, notes, poster, posted, marked, tw, log) ==
    [outcome |-> outcome, ret |-> ret, notes |-> notes, poster |-> poster,
     posted |-> posted, marked |-> marked, tweets |-> tw, post_log |-> log]

\* (mutant) the dry-run check is missing
RunCycleGate_IgnoresDryRun(cfg, dry_run, analysis) ==
    IF analysis = None \/ ~analysis.should_post THEN "no_match"
    ELSE IF analysis.relevance_score < cfg.min_relevance_score THEN "below_min"
    ELSE "post"

\* (mutant) the threshold is compared with <= on the wrong side: a score below
\* the minimum goes on to the post
RunCycleGate_NoMinScore(cfg, dry_run, analysis) ==
    IF analysis = None \/ ~analysis.should_post THEN "no_match"
    ELSE IF analysis.relevance_score > cfg.min_relevance_score THEN "below_min"
    ELSE IF dry_run THEN "dry_run"
    ELSE "post"

\* run_cycle, steps 4 to 6: which way the cycle goes once the analysis is back
RunCycleGate(cfg, dry_run, analysis) ==
    IF analysis = None \/ ~analysis.should_post THEN "no_match"
    ELSE IF analysis.relevance_score < cfg.min_relevance_score THEN "below_min"
    ELSE IF dry_run THEN "dry_run"
    ELSE "post"

\* next((t for t in queued if t.id == tweet_id), None).media_path, None without one
MediaOf(queued, tweet_id) ==
    IF \E i \in 1..Len(queued) : queued[i].id = tweet_id
    THEN queued[CHOOSE i \in 1..Len(queued) :
                    queued[i].id = tweet_id /\ \A k \in 1..(i - 1) : queued[k].id # tweet_id
               ].media_path
    ELSE NoMedia

\* (mutant) mark_posted is called before Poster.post
TryPost_MarksFirst(queued, trends, analysis, tw, log, platformOk, cb) ==
    LET call == [text |-> analysis.tweet_text,
                 media_path |-> MediaOf(queued, analysis.tweet_id)]
        tw2 == MarkPostedTweets(tw, analysis.tweet_id, analysis.matched_trend,
                                analysis.relevance_score, Now(tw, log))
        log2 == MarkPostedLog(log, tw2, analysis.tweet_id, analysis.relevance_score,
                              analysis.reasoning, TrendsJson(trends), Now(tw, log))
    IN  IF PostSucceeds(call.text, call.media_path, platformOk)
        THEN Effect("posted", analysis, <<"posted">>, <<call>>, TRUE,
                    <<analysis.tweet_id>>, tw2, log2)
        ELSE Effect("post_failed", None, <<"failed">>, <<call>>, FALSE,
                    <<analysis.tweet_id>>, tw2, log2)

\* run_cycle, the try block: post, mark_posted, notify; any exception in it is
\* reported by a second notification and the cycle returns None
TryPost(queued, trends, analysis, tw, log, platformOk, cb) ==
    LET call == [text |-> analysis.tweet_text,
                 media_path |-> MediaOf(queued, analysis.tweet_id)]
    IN  IF PostSucceeds(call.text, call.media_path, platformOk)
        THEN LET tw2 == MarkPostedTweets(tw, analysis.tweet_id, analysis.matched_trend,
                                         analysis.relevance_score, Now(tw, log))
                 log2 == MarkPostedLog(log, tw2, analysis.tweet_id,
                                       analysis.relevance_score, analysis.reasoning,
                                       TrendsJson(trends), Now(tw, log))
             IN  IF NotifyRaises(cb)
                 THEN Effect("notify_failed", None, <<"posted", "failed">>, <<call>>, TRUE,
                             <<analysis.tweet_id>>, tw2, log2)
                 ELSE Effect("posted", analysis, <<"posted">>, <<call>>, TRUE,
                             <<analysis.tweet_id>>, tw2, log2)
        ELSE Effect("post_failed", None, <<"failed">>, <<call>>, FALSE, <<>>, tw, log)

\* run_cycle from the return of analyze_tweets to its own return
RunCycleFinish(cfg, dry_run, queued, trends, analysis, tw, log, platformOk, cb) ==
    LET gate == RunCycleGate(cfg, dry_run, analysis) IN
    IF gate = "no_match" THEN Effect("no_match", None, <<>>, <<>>, FALSE, <<>>, tw, log)
    ELSE IF gate = "below_min"
         THEN Effect("below_min", analysis, <<>>, <<>>, FALSE, <<>>, tw, log)
    ELSE IF gate = "dry_run"
         THEN Effect("dry_run", IF NotifyRaises(cb) THEN Raise("notify") ELSE analysis,
                     <<"dry_run">>, <<>>, FALSE, <<>>, tw, log)
    ELSE TryPost(queued, trends, analysis, tw, log, platformOk, cb)

\* run_cycle with no trends: one warning, None
NoTrends(tw, log, cb) ==
    Effect("no_trends", IF NotifyRaises(cb) THEN Raise("notify") ELSE None,
           <<"no_trends">>, <<>>, FALSE, <<>>, tw, log)

\* (mutant) the draft is looked up among all rows, whatever their status
PostTweetById_AnyStatus(tweet_id, tw, log, platformOk) ==
    LET queued == OrderByAddedAt(AsQueuedTweets(tw)) IN
    IF ~\E i \in 1..Len(queued) : queued[i].id = tweet_id
    THEN Effect("not_found", None, <<>>, <<>>, FALSE, <<>>, tw, log)
    ELSE LET tweet == queued[CHOOSE i \in 1..Len(queued) : queued[i].id = tweet_id]
             call == [text |-> tweet.text, media_path |-> tweet.media_path]
         IN  IF PostSucceeds(call.text, call.media_path, platformOk)
             THEN LET tw2 == MarkPostedTweets(tw, tweet.id, JStr("manual"), 0, Now(tw, log))
                      log2 == MarkPostedLog(log, tw2, tweet.id, 0,
                                            JStr("Manually posted by user"), <<>>, Now(tw, log))
                  IN  Effect("posted", [kind |-> "result", text |-> call.text], <<>>,
                             <<call>>, TRUE, <<tweet.id>>, tw2, log2)
             ELSE Effect("post_failed", Raise("PostError"), <<>>, <<call>>, FALSE, <<>>,
                         tw, log)

\* (mutant) the except block logs and returns None instead of raising again
PostTweetById_SwallowsFailure(tweet_id, tw, log, platformOk) ==
    LET queued == ListQueued(tw) IN
    IF ~\E i \in 1..Len(queued) : queued[i].id = tweet_id
    THEN Effect("not_found", None, <<>>, <<>>, FALSE, <<>>, tw, log)
    ELSE LET tweet == queued[CHOOSE i \in 1..Len(queued) : queued[i].id = tweet_id]
             call == [text |-> tweet.text, media_path |-> tweet.media_path]
         IN  IF PostSucceeds(call.text, call.media_path, platformOk)
             THEN LET tw2 == MarkPostedTweets(tw, tweet.id, JStr("manual"), 0, Now(tw, log))
                      log2 == MarkPostedLog(log, tw2, tweet.id, 0,
                                            JStr("Manually posted by user"), <<>>, Now(tw, log))
                  IN  Effect("posted", [kind |-> "result", text |-> call.text], <<>>,
                             <<call>>, TRUE, <<tweet.id>>, tw2, log2)
             ELSE Effect("post_failed", None, <<>>, <<call>>, FALSE, <<>>, tw, log)

\* (mutant) the row is marked posted whether or not Poster.post returned
PostTweetById_MarksOnFailure(tweet_id, tw, log, platformOk) ==
    LET queued == ListQueued(tw) IN
    IF ~\E i \in 1..Len(queued) : queued[i].id = tweet_id
    THEN Effect("not_found", None, <<>>, <<>>, FALSE, <<>>, tw, log)
    ELSE LET tweet == queued[CHOOSE i \in 1..Len(queued) : queued[i].id = tweet_id]
             call == [text |-> tweet.text, media_path |-> tweet.media_path]
             tw2 == MarkPostedTweets(tw, tweet.id, JStr("manual"), 0, Now(tw, log))
             log2 == MarkPostedLog(log, tw2, tweet.id, 0,
                                   JStr("Manually posted by user"), <<>>, Now(tw, log))
         IN  IF PostSucceeds(call.text, call.media_path, platformOk)
             THEN Effect("posted", [kind |-> "result", text |-> call.text], <<>>,
                         <<call>>, TRUE, <<tweet.id>>, tw2, log2)
             ELSE Effect("post_failed", Raise("PostError"), <<>>, <<call>>, FALSE,
                         <<tweet.id>>, tw2, log2)

\* (mutant) post_tweet_by_id posts and returns without mark_posted
PostTweetById_NoMark(tweet_id, tw, log, platformOk) ==
    LET queued == ListQueued(tw) IN
    IF ~\E i \in 1..Len(queued) : queued[i].id = tweet_id
    THEN Effect("not_found", None, <<>>, <<>>, FALSE, <<>>, tw, log)
    ELSE LET tweet == queued[CHOOSE i \in 1..Len(queued) : queued[i].id = tweet_id]
             call == [text |-> tweet.text, media_path |-> tweet.media_path]
         IN  IF PostSucceeds(call.text, call.media_path, platformOk)
             THEN Effect("posted", [kind |-> "result", text |-> call.text], <<>>,
                         <<call>>, TRUE, <<>>, tw, log)
             ELSE Effect("post_failed", Raise("PostError"), <<>>, <<call>>, FALSE, <<>>,
                         tw, log)

\* Scheduler.post_tweet_by_id: no await between list_queued and mark_posted
PostTweetById(tweet_id, tw, log, platformOk) ==
    LET queued == ListQueued(tw) IN
    IF ~\E i \in 1..Len(queued) : queued[i].id = tweet_id
    THEN Effect("not_found", None, <<>>, <<>>, FALSE, <<>>, tw, log)
    ELSE LET tweet == queued[CHOOSE i \in 1..Len(queued) : queued[i].id = tweet_id]
             call == [text |-> tweet.text, media_path |-> tweet.media_path]
         IN  IF PostSucceeds(call.text, call.media_path, platformOk)
             THEN LET tw2 == MarkPostedTweets(tw, tweet.id, JStr("manual"), 0, Now(tw, log))
                      log2 == MarkPostedLog(log, tw2, tweet.id, 0,
                                            JStr("Manually posted by user"), <<>>, Now(tw, log))
                  IN  Effect("posted", [kind |-> "result", text |-> call.text], <<>>,
                             <<call>>, TRUE, <<tweet.id>>, tw2, log2)
             ELSE Effect("post_failed", Raise("PostError"), <<>>, <<call>>, FALSE, <<>>,
                         tw, log)

-----------------------------------------------------------------------------
(* The running program: cli.run wires one Scheduler, the interval job and one bot *)

\* the configurations considered: the ScheduleConfig defaults (auto_post on: with it
\* off the interval job is never added and the behaviours are a subset), either bot
Configs ==
    [posting_hours_start : {PostingHoursStart}, posting_hours_end : {PostingHoursEnd},
     min_relevance_score : {MinRelevanceScore}, auto_post : {TRUE},
     max_queue_size : {MaxQueueSize}, platform : {"telegram", "discord"}]

\* POSTING_HOURS_START=22 with POSTING_HOURS_END=8: load_config takes any two
\* integers, and no hour h has 22 <= h < 8
ClosedWindow ==
    [posting_hours_start |-> PostingHoursEnd, posting_hours_end |-> PostingHoursStart,
     min_relevance_score |-> MinRelevanceScore, auto_post |-> TRUE,
     max_queue_size |-> MaxQueueSize, platform |-> "telegram"]

\* a task that is not inside run_cycle or rank_cycle
Idle == [pc |-> "idle", op |-> "none", dry_run |-> FALSE, hour |-> 0, queued |-> <<>>,
         trends |-> <<>>, limit |-> 0]

\* the record of a step: who took it, in which operation, and (filled in by the
\* step) its input, what it called and what it returned
Did(p, op, stage) ==
    [proc |-> p, op |-> op, stage |-> stage, done |-> TRUE, dry_run |-> FALSE,
     hour |-> 0, id |-> 0, score |-> 0, text |-> "", outcome |-> "", ret |-> None, notes |-> <<>>,
     poster |-> <<>>, posted |-> FALSE, marked |-> <<>>, fetch |-> FALSE, llm |-> FALSE,
     analysis |-> None, raised |-> FALSE, limit |-> 0, cb |-> "ok", user |-> 0]

\* the record of a Scheduler step with effect e
DidEffect(p, op, stage, dry_run, e) ==
    [Did(p, op, stage) EXCEPT !.dry_run = dry_run, !.outcome = e.outcome, !.ret = e.ret,
                              !.notes = e.notes, !.poster = e.poster,
                              !.posted = e.posted, !.marked = e.marked]

Init ==
    /\ config \in Configs \cup {ClosedWindow}
    /\ tweets = <<>>
    /\ post_log = <<>>
    /\ cyc = [p \in Procs |-> Idle]
    /\ last = Did(Timer, "init", "init")
    /\ scraper = NoCall
    /\ parsing = NoCall
    /\ bot = NoBot

\* Scheduler.run_cycle up to its first await (scraper.get_trends)
RunCycleStart(p, dry_run, hour) ==
    /\ cyc[p].pc = "idle"
    /\ LET queued == ListQueued(tweets)
           d == [Did(p, "run_cycle", "start") EXCEPT
                    !.dry_run = dry_run, !.hour = IF dry_run THEN 0 ELSE hour]
       IN  IF ~dry_run /\ ~IsPostingHour(config, hour)
           THEN /\ last' = [d EXCEPT !.outcome = "outside_hours"]
                /\ UNCHANGED cyc
           ELSE IF Len(queued) = 0
           THEN /\ last' = [d EXCEPT !.outcome = "empty_queue"]
                /\ UNCHANGED cyc
           ELSE /\ cyc' = [cyc EXCEPT ![p] = [pc |-> "trends", op |-> "run_cycle",
                                              dry_run |-> dry_run,
                                              hour |-> IF dry_run THEN 0 ELSE hour,
                                              queued |-> queued,
                                              trends |-> <<>>, limit |-> 0]]
                /\ last' = [d EXCEPT !.done = FALSE, !.fetch = TRUE]
    /\ UNCHANGED <<config, tweets, post_log, scraper, parsing>>

\* run_cycle resumes with the trends: none, warn and return; else await analyze_tweets
RunCycleTrends(p, trends) ==
    /\ cyc[p].pc = "trends" /\ cyc[p].op = "run_cycle"
    /\ IF Len(trends) = 0
       THEN \E cb \in Callbacks :
                /\ last' = [DidEffect(p, "run_cycle", "trends", cyc[p].dry_run,
                                      NoTrends(tweets, post_log, cb)) EXCEPT !.cb = cb]
                /\ cyc' = [cyc EXCEPT ![p] = Idle]
       ELSE /\ cyc' = [cyc EXCEPT ![p].pc = "llm", ![p].trends = trends]
            /\ last' = [Did(p, "run_cycle", "trends") EXCEPT !.dry_run = cyc[p].dry_run,
                                                             !.done = FALSE, !.llm = TRUE]
    /\ UNCHANGED <<config, bot, tweets, post_log, scraper, parsing>>

\* run_cycle returns with effect e
RunCycleReturn(p, resp, cb, analysis, e) ==
    /\ tweets' = e.tweets
    /\ post_log' = e.post_log
    /\ last' = [DidEffect(p, "run_cycle", "analyze", cyc[p].dry_run, e) EXCEPT
                     !.analysis = analysis, !.raised = IsRaised(resp),
                     !.cb = IF Len(e.notes) > 0 THEN cb ELSE "ok"]

\* run_cycle from the return of analyze_tweets on; what Poster and the callback do is
\* drawn only for a cycle that gets to call them
RunCycleAnalyzed(p, resp, analysis, gate) ==
    \E platformOk \in IF gate = "post" THEN BOOLEAN ELSE {TRUE},
       cb \in IF gate \in {"post", "dry_run"} THEN Callbacks ELSE {"ok"} :
        RunCycleReturn(p, resp, cb, analysis,
                       RunCycleFinish(config, cyc[p].dry_run, cyc[p].queued, cyc[p].trends,
                                      analysis, tweets, post_log, platformOk, cb))

\* run_cycle resumes with the provider's answer and runs to its return
RunCycleAnalyze(p, resp) ==
    /\ cyc[p].pc = "llm" /\ cyc[p].op = "run_cycle"
    /\ RunCycleAnalyzed(p, resp, AnalyzeTweets(resp, TweetsForLLM(cyc[p].queued)),
                        RunCycleGate(config, cyc[p].dry_run,
                                     AnalyzeTweets(resp, TweetsForLLM(cyc[p].queued))))
    /\ cyc' = [cyc EXCEPT ![p] = Idle]
    /\ UNCHANGED <<config, bot, scraper, parsing>>

\* Scheduler.rank_cycle up to its first await
RankCycleStart(p, limit) ==
    /\ cyc[p].pc = "idle"
    /\ LET queued == ListQueued(tweets)
           d == Did(p, "rank_cycle", "start")
       IN  IF Len(queued) = 0
           THEN /\ last' = [d EXCEPT !.outcome = "empty_queue",
                                     !.ret = [kind |-> "list", items |-> <<>>]]
                /\ UNCHANGED cyc
           ELSE /\ cyc' = [cyc EXCEPT ![p] = [pc |-> "trends", op |-> "rank_cycle",
                                              dry_run |-> FALSE, hour |-> 0,
                                              queued |-> queued,
                                              trends |-> <<>>, limit |-> limit]]
                /\ last' = [d EXCEPT !.done = FALSE, !.fetch = TRUE]
    /\ UNCHANGED <<config, tweets, post_log, scraper, parsing>>

\* rank_cycle resumes with the trends
RankCycleTrends(p, trends) ==
    /\ cyc[p].pc = "trends" /\ cyc[p].op = "rank_cycle"
    /\ IF Len(trends) = 0
       THEN /\ last' = [Did(p, "rank_cycle", "trends") EXCEPT
                            !.outcome = "no_trends",
                            !.ret = [kind |-> "list", items |-> <<>>]]
            /\ cyc' = [cyc EXCEPT ![p] = Idle]
       ELSE /\ cyc' = [cyc EXCEPT ![p].pc = "llm", ![p].trends = trends]
            /\ last' = [Did(p, "rank_cycle", "trends") EXCEPT !.done = FALSE, !.llm = TRUE]
    /\ UNCHANGED <<config, bot, tweets, post_log, scraper, parsing>>

\* (mutant) return rankings
Truncate_Not(rankings, limit) == rankings

\* rankings[:limit], for a limit that is not negative
Truncate(rankings, limit) ==
    SubSeq(rankings, 1, IF limit < Len(rankings) THEN limit ELSE Len(rankings))

\* rank_cycle resumes with the provider's answer: rankings[:limit]
RankCycleRank(p, resp) ==
    /\ cyc[p].pc = "llm" /\ cyc[p].op = "rank_cycle"
    /\ LET rankings == RankTweets(resp, TweetsForLLM(cyc[p].queued)) IN
       last' = [Did(p, "rank_cycle", "rank") EXCEPT
                    !.outcome = "ranked", !.raised = IsRaised(resp),
                    !.limit = cyc[p].limit,
                    !.ret = [kind |-> "list", items |-> Truncate(rankings, cyc[p].limit)]]
    /\ cyc' = [cyc EXCEPT ![p] = Idle]
    /\ UNCHANGED <<config, bot, tweets, post_log, scraper, parsing>>

-----------------------------------------------------------------------------
(* What the surroundings may answer *)

\* a reply object of the single-best-match prompt
AnalysisObj(best_tweet_id, score, should_post) ==
    JObj([best_tweet_id |-> best_tweet_id, relevance_score |-> JInt(score),
          matched_trend |-> JStr("AI"), reasoning |-> JStr("r"),
          should_post |-> JBool(should_post)])

\* scores on either side of the default threshold
Scores == {MinRelevanceScore - 1, MinRelevanceScore}

\* every named id with either score and should_post true; one reply each with
\* should_post false and with a null id
AnalysisObjs ==
    {AnalysisObj(JInt(i), sc, TRUE) : i \in 1..(MaxTweets + 1), sc \in Scores}
    \cup {AnalysisObj(JInt(1), MinRelevanceScore, FALSE),
          AnalysisObj(JNull, MinRelevanceScore, TRUE)}

\* provider.complete for the analysis prompt: an exception, text that is not JSON,
\* a bare object, or an object inside a ```json fence
AnalysisAnswers ==
    {CompleteRaised, Reply(<<TJunk>>)}
    \cup {Reply(<<TJson(o)>>) : o \in AnalysisObjs}
    \cup {Reply(<<TFence, TWord("json"), TNewline, TJson(AnalysisObj(JInt(1), MinRelevanceScore, TRUE)),
                  TNewline, TFence>>)}

RankEntry(id, score) ==
    JObj([id |-> JInt(id), relevance_score |-> JInt(score),
          matched_trend |-> JStr("AI"), reasoning |-> JStr("r")])

\* provider.complete for the rank-all prompt
RankAnswers ==
    {CompleteRaised, Reply(<<TJunk>>),
     Reply(<<TJson(JObj([rankings |-> JArr(<<RankEntry(1, 0), RankEntry(MaxTweets + 1, 90),
                                             RankEntry(2, 85)>>)]))>>)}

\* the limits /top may pass
Limits == {1, 5}

-----------------------------------------------------------------------------
(* cli.py: the interval job *)

\* the job fires; max_instances=1 skips the run while the job's last one is not over
TimerJob(hour) ==
    /\ config.auto_post
    /\ RunCycleStart(Timer, FALSE, hour)
    /\ UNCHANGED bot

-----------------------------------------------------------------------------
(* telegram_bot.py, discord_bot.py: the chat commands *)

\* python-telegram-bot handles one update at a time (Application.builder() leaves
\* concurrent_updates off); discord.py starts a task per message
ChatFree == config.platform = "telegram" => \A k \in Handlers : cyc[k].pc = "idle"

\* /analyze, !analyze
CmdAnalyze(h, hour) == ChatFree /\ RunCycleStart(h, TRUE, hour) /\ UNCHANGED bot

\* /post without an id, !post
CmdPost(h, hour) == ChatFree /\ RunCycleStart(h, FALSE, hour) /\ UNCHANGED bot

\* /top
CmdTop(h, limit) ==
    /\ config.platform = "telegram"
    /\ ChatFree
    /\ RankCycleStart(h, limit)
    /\ UNCHANGED bot

\* /post <id>
CmdPostId(h, tweet_id, platformOk) ==
    /\ config.platform = "telegram"
    /\ ChatFree
    /\ cyc[h].pc = "idle"
    /\ LET e == PostTweetById(tweet_id, tweets, post_log, platformOk) IN
       /\ tweets' = e.tweets
       /\ post_log' = e.post_log
       /\ last' = [DidEffect(h, "post_tweet_by_id", "call", FALSE, e) EXCEPT !.id = tweet_id]
    /\ UNCHANGED <<config, bot, cyc, scraper, parsing>>

\* (mutant) the queue counts as full only once it holds more than max_queue_size
QueueFull_OneTooMany(cfg, tw) == QueueSize(tw) > cfg.max_queue_size

\* if self.queue.queue_size() >= self.config.max_queue_size
QueueFull(cfg, tw) == QueueSize(tw) >= cfg.max_queue_size

\* the three add handlers from the text on: usage, too long, queue full, or add
\* (no await between queue_size and add); d is the record of the step
QueueCommand(d, text) ==
    IF text = "" THEN last' = [d EXCEPT !.outcome = "usage"] /\ UNCHANGED tweets
    ELSE IF Len(text) > MaxTweetLen
         THEN last' = [d EXCEPT !.outcome = "too_long"] /\ UNCHANGED tweets
    ELSE IF QueueFull(config, tweets)
         THEN last' = [d EXCEPT !.outcome = "queue_full"] /\ UNCHANGED tweets
    ELSE /\ Len(tweets) < MaxTweets
         /\ tweets' = QueueAdd(tweets, text, NoMedia, Now(tweets, post_log))
         /\ last' = [d EXCEPT !.outcome = "queued", !.id = Len(tweets')]

\* /queue <text>, a plain text message, !queue <text>
CmdQueue(h, text) ==
    /\ ChatFree
    /\ cyc[h].pc = "idle"
    /\ QueueCommand([Did(h, "cmd_queue", "call") EXCEPT !.text = text], text)
    /\ UNCHANGED <<config, bot, post_log, cyc, scraper, parsing>>

\* /remove <id>, !remove <id>
CmdRemove(h, tweet_id) ==
    /\ ChatFree
    /\ cyc[h].pc = "idle"
    /\ tweets' = QueueRemove(tweets, tweet_id)
    /\ last' = [Did(h, "cmd_remove", "call") EXCEPT
                    !.id = tweet_id,
                    !.outcome = IF RemoveMatches(tweets, tweet_id) THEN "removed"
                                ELSE "not_found"]
    /\ UNCHANGED <<config, bot, post_log, cyc, scraper, parsing>>

Next ==
    \/ \E hour \in Hours : TimerJob(hour)
    \/ \E h \in Handlers, hour \in Hours : CmdAnalyze(h, hour)
    \/ \E h \in Handlers, hour \in Hours : CmdPost(h, hour)
    \/ \E h \in Handlers, limit \in Limits : CmdTop(h, limit)
    \/ \E h \in Handlers, id \in 1..(MaxTweets + 1), ok \in BOOLEAN : CmdPostId(h, id, ok)
    \/ \E h \in Handlers, text \in TypedTexts : CmdQueue(h, text)
    \/ \E h \in Handlers, id \in 1..(MaxTweets + 1) : CmdRemove(h, id)
    \/ \E p \in Procs, trends \in TrendResults : RunCycleTrends(p, trends)
    \/ \E p \in Procs, resp \in AnalysisAnswers : RunCycleAnalyze(p, resp)
    \/ \E p \in Procs, trends \in TrendResults : RankCycleTrends(p, trends)
    \/ \E p \in Procs, resp \in RankAnswers : RankCycleRank(p, resp)

Spec == Init /\ [][Next]_vars

-----------------------------------------------------------------------------
(* TweetQueue called directly, as its tests do: any text, any id *)

\* post_log rows a direct caller may add
MaxLog == 2

\* the texts, media and ids a caller may pass
ApiTexts == {"", ShortText, Text280, LongText}
ApiMedia == {NoMedia, "photo.jpg"}
ApiIds == 1..(MaxTweets + 1)

\* q.add(text, media_path)
ApiAdd(text, media_path) ==
    /\ Len(tweets) < MaxTweets
    /\ tweets' = QueueAdd(tweets, text, media_path, Now(tweets, post_log))
    /\ last' = [Did(Timer, "Queue.add", "call") EXCEPT
                    !.text = text, !.id = LastRowId(tweets'),
                    !.ret = [kind |-> "tweet", id |-> LastRowId(tweets'), text |-> text,
                             media_path |-> media_path, status |-> "queued"]]
    /\ UNCHANGED <<config, bot, post_log, cyc, scraper, parsing>>

\* q.remove(tweet_id)
ApiRemove(tweet_id) ==
    /\ tweets' = QueueRemove(tweets, tweet_id)
    /\ last' = [Did(Timer, "Queue.remove", "call") EXCEPT
                    !.id = tweet_id,
                    !.ret = [kind |-> "bool", b |-> RemoveMatches(tweets, tweet_id)]]
    /\ UNCHANGED <<config, bot, post_log, cyc, scraper, parsing>>

\* q.mark_posted(tweet_id, trend, score, reasoning, trends_json)
ApiMarkPosted(tweet_id, score) ==
    /\ Len(post_log) < MaxLog
    /\ tweets' = MarkPostedTweets(tweets, tweet_id, JStr("AI"), score, Now(tweets, post_log))
    /\ post_log' = MarkPostedLog(post_log, tweets', tweet_id, score, JStr("r"), <<"AI">>,
                                 Now(tweets, post_log))
    /\ last' = [Did(Timer, "Queue.mark_posted", "call") EXCEPT
                    !.id = tweet_id, !.score = score]
    /\ UNCHANGED <<config, bot, cyc, scraper, parsing>>

NextQueue ==
    \/ \E text \in ApiTexts, media_path \in ApiMedia : ApiAdd(text, media_path)
    \/ \E id \in ApiIds : ApiRemove(id)
    \/ \E id \in ApiIds, score \in Scores : ApiMarkPosted(id, score)

SpecQueue == Init /\ [][NextQueue]_vars

-----------------------------------------------------------------------------
(* TweetQueue over a long life: drafts are added and posted one after another, *)
(* until the post log is longer than what get_post_history returns             *)

\* posts made over that life
MaxPosts == 11
\* drafts waiting at once
MaxPending == 2

\* q.add(text)
HistAdd ==
    /\ Len(tweets) < MaxPosts
    /\ QueueSize(tweets) < MaxPending
    /\ tweets' = QueueAdd(tweets, ShortText, NoMedia, Now(tweets, post_log))
    /\ last' = [Did(Timer, "Queue.add", "call") EXCEPT
                    !.text = ShortText, !.id = LastRowId(tweets'),
                    !.ret = [kind |-> "tweet", id |-> LastRowId(tweets'), text |-> ShortText,
                             media_path |-> NoMedia, status |-> "queued"]]
    /\ UNCHANGED <<config, bot, post_log, cyc, scraper, parsing>>

\* the score a draft is posted with: a different one for every draft
ScoreOf(tweet_id) == MinRelevanceScore + tweet_id

\* q.mark_posted(tweet_id, trend, score, reasoning, trends_json) on a queued draft
HistMarkPosted(tweet_id, score) ==
    /\ RemoveMatches(tweets, tweet_id)
    /\ tweets' = MarkPostedTweets(tweets, tweet_id, JStr("AI"), score, Now(tweets, post_log))
    /\ post_log' = MarkPostedLog(post_log, tweets', tweet_id, score, JStr("r"), <<"AI">>,
                                 Now(tweets, post_log))
    /\ last' = [Did(Timer, "Queue.mark_posted", "call") EXCEPT
                    !.id = tweet_id, !.score = score]
    /\ UNCHANGED <<config, bot, cyc, scraper, parsing>>

NextHistory ==
    \/ HistAdd
    \/ \E id \in 1..MaxPosts : HistMarkPosted(id, ScoreOf(id))

SpecHistory == Init /\ [][NextHistory]_vars

-----------------------------------------------------------------------------
(* trendposter/scraper.py: TrendScraper *)

\* the sources, in the order get_trends tries them
TREND_SOURCES == <<"trends24", "getdaytrends">>

\* get_trends returns trends[:30]
TrendCap == 30

\* the anchor texts a page may carry, and what get_text(strip=True) and
\* str.lower() make of them (any other text is left as it is)
AnchorTexts == {"AI", "ai", "Rust", " "}
Stripped == [x \in {" "} |-> ""]
Lowered == [x \in {"AI"} |-> "ai"]

\* li.get_text(strip=True)
GetTextStrip(x) == IF x \in DOMAIN Stripped THEN Stripped[x] ELSE x

\* (mutant) names are compared as they are written
Lower_AsWritten(name) == name

\* name.lower()
Lower(name) == IF name \in DOMAIN Lowered THEN Lowered[name] ELSE name

\* Trend(name=..., tweet_count=...); category is never set by a parser
Trend(name, tweet_count) == [name |-> name, tweet_count |-> tweet_count]

\* for card in soup.select(".trend-card"): for li in card.select("ol li a"):
\* the anchors of all cards, card after card
RECURSIVE CardAnchors(_)
CardAnchors(cards) ==
    IF Len(cards) = 0 THEN <<>> ELSE Head(cards) \o CardAnchors(Tail(cards))

\* the loop of _parse_trends24 over the anchors from index i on
RECURSIVE Trends24Loop(_, _, _, _)
Trends24Loop(anchors, i, seen, trends) ==
    IF i > Len(anchors) THEN trends
    ELSE LET name == GetTextStrip(anchors[i]) IN
         IF name # "" /\ Lower(name) \notin seen
         THEN Trends24Loop(anchors, i + 1, seen \cup {Lower(name)},
                           Append(trends, Trend(name, None)))
         ELSE Trends24Loop(anchors, i + 1, seen, trends)

\* TrendScraper._parse_trends24; a page is its trend cards, each the texts of its anchors
ParseTrends24(html) == Trends24Loop(CardAnchors(html), 1, {}, <<>>)

\* a table row of getdaytrends: the text of the anchor in its first cell (None: the
\* row has no cell, or no anchor in the first one) and of its second cell (None:
\* there is no second cell)
Row(anchor, count) == [anchor |-> anchor, count |-> count]

\* the loop of _parse_getdaytrends over the rows from index i on
RECURSIVE GetDayTrendsLoop(_, _, _, _)
GetDayTrendsLoop(rows, i, seen, trends) ==
    IF i > Len(rows) THEN trends
    ELSE IF rows[i].anchor = None THEN GetDayTrendsLoop(rows, i + 1, seen, trends)
    ELSE LET name == GetTextStrip(rows[i].anchor.v) IN
         IF name # "" /\ Lower(name) \notin seen
         THEN GetDayTrendsLoop(rows, i + 1, seen \cup {Lower(name)},
                               Append(trends, Trend(name, rows[i].count)))
         ELSE GetDayTrendsLoop(rows, i + 1, seen, trends)

\* TrendScraper._parse_getdaytrends
ParseGetDayTrends(html) == GetDayTrendsLoop(html, 1, {}, <<>>)

\* getattr(self, source["parser"])(resp.text)
Parse(source, html) ==
    IF source = "trends24" THEN ParseTrends24(html) ELSE ParseGetDayTrends(html)

\* What a source answers to one fetch: client.get raises (no connection, timeout),
\* raise_for_status raises (a status that is not 2xx), the parser raises
\* (BeautifulSoup finds no lxml tree builder), or a page arrives and is parsed.
ConnectError == [kind |-> "raise", exc |-> "ConnectError"]
HTTPStatusError == [kind |-> "raise", exc |-> "HTTPStatusError"]
FeatureNotFound == [kind |-> "raise", exc |-> "FeatureNotFound"]
Page(html) == [kind |-> "page", html |-> html]

\* TrendScraper._fetch_source: an exception, or the parsed trends
FetchSource(source, answer) ==
    IF answer.kind = "raise" THEN answer
    ELSE [kind |-> "list", items |-> Parse(source, answer.html)]

\* (mutant) except httpx.HTTPError: an exception of the parser is not caught
Catches_HttpxOnly(exc) == exc \in {"ConnectError", "HTTPStatusError"}

\* get_trends: except Exception catches the exception (all three derive from it)
Catches(exc) == exc \in {"ConnectError", "HTTPStatusError", "FeatureNotFound"}

\* (mutant) if trends is not None: an empty list is returned as well
IsTruthyList_NotNone(trends) == TRUE

\* get_trends: if trends
IsTruthyList(trends) == Len(trends) > 0

\* trends[:n]
Take(q, n) == IF Len(q) > n THEN SubSeq(q, 1, n) ELSE q

\* a get_trends call in progress: the answers its sources will give, the index of the
\* source it is about to fetch, the sources fetched and what each parse gave, and
\* how it ended
GetTrendsCall(answers) ==
    [kind |-> "call", answers |-> answers, next |-> 1, fetched |-> <<>>,
     parsed |-> <<>>, done |-> FALSE, raised |-> FALSE, trends |-> <<>>]

\* one turn of the loop of get_trends: await _fetch_source, then return or go on
GetTrendsFetch ==
    /\ scraper.kind = "call" /\ ~scraper.done
    /\ scraper.next <= Len(TREND_SOURCES)
    /\ LET source == TREND_SOURCES[scraper.next]
           r == FetchSource(source, scraper.answers[scraper.next])
           s == [scraper EXCEPT !.fetched = Append(@, source),
                                !.parsed = Append(@, IF r.kind = "list" THEN r.items
                                                      ELSE <<>>)]
       IN  IF r.kind = "raise"
           THEN IF Catches(r.exc)
                THEN scraper' = [s EXCEPT !.next = @ + 1]
                ELSE scraper' = [s EXCEPT !.done = TRUE, !.raised = TRUE]
           ELSE IF IsTruthyList(r.items)
                THEN scraper' = [s EXCEPT !.done = TRUE, !.trends = Take(r.items, TrendCap)]
                ELSE scraper' = [s EXCEPT !.next = @ + 1]
    /\ UNCHANGED <<config, bot, tweets, post_log, cyc, last, parsing>>

\* get_trends after the loop: every source failed or was empty, return []
GetTrendsGiveUp ==
    /\ scraper.kind = "call" /\ ~scraper.done
    /\ scraper.next > Len(TREND_SOURCES)
    /\ scraper' = [scraper EXCEPT !.done = TRUE, !.trends = <<>>]
    /\ UNCHANGED <<config, bot, tweets, post_log, cyc, last, parsing>>

\* the pages considered: cards of up to MaxAnchors anchors, tables of up to
\* MaxAnchors rows, and one page with more trends than get_trends returns
MaxAnchors == 2

SeqsUpTo(S, n) == UNION {[1..k -> S] : k \in 0..n}

LongCard == [i \in 1..(TrendCap + 1) |-> ToString(i)]

Trends24Pages ==
    {<<c1, c2>> : c1 \in SeqsUpTo(AnchorTexts, MaxAnchors - 1),
                  c2 \in SeqsUpTo(AnchorTexts, MaxAnchors)}
    \cup {<<>>, <<LongCard>>}

Rows ==
    {Row(None, None)}
    \cup {Row(Some(a), None) : a \in {"AI", "Rust"}}
    \cup {Row(Some(a), Some("12K")) : a \in {"ai", "Rust", " "}}

GetDayTrendsPages ==
    SeqsUpTo(Rows, MaxAnchors)
    \cup {[i \in 1..(TrendCap + 1) |-> Row(Some(LongCard[i]), Some("12K"))]}

Failures == {ConnectError, HTTPStatusError, FeatureNotFound}

InitScraper ==
    /\ config \in Configs
    /\ tweets = <<>>
    /\ post_log = <<>>
    /\ cyc = [p \in Procs |-> Idle]
    /\ last = Did(Timer, "init", "init")
    /\ \E a1 \in Failures \cup {Page(h) : h \in Trends24Pages},
          a2 \in Failures \cup {Page(h) : h \in GetDayTrendsPages} :
            scraper = GetTrendsCall(<<a1, a2>>)
    /\ parsing = NoCall
    /\ bot = NoBot

NextScraper == GetTrendsFetch \/ GetTrendsGiveUp

SpecScraper == InitScraper /\ [][NextScraper]_vars

-----------------------------------------------------------------------------
(* parse_analysis_response called on one reply body, bare and inside a fence *)

\* a key the reply object does not have
Absent == [absent |-> TRUE]

\* the object with the fields of f that are not Absent
ObjOf(f) == JObj([k \in {x \in DOMAIN f : f[x] # Absent} |-> f[k]])

\* the reply bodies: objects with every key of the prompt's schema present or
\* missing and typed as asked or not, and JSON values that are no object
ParseBodies ==
    {ObjOf(f) : f \in [best_tweet_id : {Absent, JNull, JInt(0), JInt(1), JInt(MaxTweets + 1)},
                       relevance_score : {Absent, JNull, JInt(0), JInt(85), JStr("85"),
                                          JStr("high")},
                       matched_trend : {JStr("AI"), JNull},
                       reasoning : {JStr("r")},
                       should_post : {Absent, JBool(TRUE), JBool(FALSE), JInt(1)}]}
    \cup {JArr(<<>>), JInt(85), JStr("no match")}

\* the drafts handed to the parser beside the reply
KnownDrafts ==
    {<<>>, <<[id |-> 1, text |-> ShortText], [id |-> 2, text |-> "Great weather today"]>>}

\* fenced code blocks: the opening fence alone on its line or with a language tag,
\* blanks and empty lines around, the closing fence on its own line or right
\* behind the body
Fence(open, close) == [open |-> open, close |-> close]
Fences ==
    {Fence(<<TFence, TNewline>>, <<TNewline, TFence>>),
     Fence(<<TFence, TWord("json"), TNewline>>, <<TNewline, TFence>>),
     Fence(<<TNewline, TBlank, TFence, TWord("json"), TBlank, TNewline, TBlank>>,
           <<TBlank, TNewline, TFence, TBlank, TNewline>>),
     Fence(<<TFence, TNewline>>, <<TFence>>)}

Wrap(fence, body) == fence.open \o <<TJson(body)>> \o fence.close

\* a result not there yet, and one that is
Pending == [done |-> FALSE, r |-> None]
Returned(r) == [done |-> TRUE, r |-> r]

\* parse_analysis_response(body, tweets)
ParseBare ==
    /\ parsing.kind = "call" /\ ~parsing.bare.done
    /\ parsing' = [parsing EXCEPT !.bare =
                       Returned(ParseAnalysisResponse(<<TJson(parsing.body)>>, parsing.tws))]
    /\ UNCHANGED <<config, bot, tweets, post_log, cyc, last, scraper>>

\* parse_analysis_response(the body inside the fence, tweets)
ParseFenced ==
    /\ parsing.kind = "call" /\ ~parsing.fenced.done
    /\ parsing' = [parsing EXCEPT !.fenced =
                       Returned(ParseAnalysisResponse(Wrap(parsing.fence, parsing.body),
                                                      parsing.tws))]
    /\ UNCHANGED <<config, bot, tweets, post_log, cyc, last, scraper>>

InitParser ==
    /\ config \in Configs
    /\ tweets = <<>>
    /\ post_log = <<>>
    /\ cyc = [p \in Procs |-> Idle]
    /\ last = Did(Timer, "init", "init")
    /\ scraper = NoCall
    /\ bot = NoBot
    /\ \E body \in ParseBodies, tws \in KnownDrafts, fence \in Fences :
           parsing = [kind |-> "call", body |-> body, tws |-> tws, fence |-> fence,
                      bare |-> Pending, fenced |-> Pending]

NextParser == ParseBare \/ ParseFenced

SpecParser == InitParser /\ [][NextParser]_vars

-----------------------------------------------------------------------------
(* parse_ranking_response called directly: any reply, bare and inside a fence *)

\* entries in a rankings array
MaxRankings == 3

\* an entry of the rank-all prompt's schema with the fields of f that are not Absent
\* (RankEntry is the one with all four)
EntryOf(f) == ObjOf(f)

\* the entries a reply may list: each named id (the last one is no draft's) with a
\* zero score and with two scores that tie across ids; an entry without id,
\* entries with a score that is no number (under a known and under an unknown
\* id), an entry without score and with a null trend, and one that is no object
RankEntries ==
    {RankEntry(i, sc) : i \in 1..(MaxTweets + 1), sc \in {0, 85, 90}}
    \cup {EntryOf([id |-> Absent, relevance_score |-> JInt(85)]),
          EntryOf([id |-> JInt(1), relevance_score |-> JStr("high")]),
          EntryOf([id |-> JInt(MaxTweets + 1), relevance_score |-> JStr("high")]),
          EntryOf([id |-> JInt(2), relevance_score |-> Absent, matched_trend |-> JNull]),
          JInt(1)}

RECURSIVE ArraysUpTo(_, _)
ArraysUpTo(S, n) ==
    IF n = 0 THEN {<<>>}
    ELSE LET shorter == ArraysUpTo(S, n - 1) IN
         shorter \cup {Append(a, e) : a \in {x \in shorter : Len(x) = n - 1}, e \in S}

\* the reply bodies: an object with a rankings array, with rankings that is no
\* array or is missing, JSON values that are no object, and text that is not JSON
RankBodies ==
    {JObj([rankings |-> JArr(a)]) : a \in ArraysUpTo(RankEntries, MaxRankings)}
    \cup {JObj([rankings |-> JNull]), JObj([rankings |-> JInt(5)]),
          JObj([rankings |-> JStr("")]), JObj([best_tweet_id |-> JInt(1)]),
          JArr(<<>>), JInt(85), TJunk}

\* the reply text for a body
RankText(body) == IF DOMAIN body = {"junk"} THEN <<body>> ELSE <<TJson(body)>>

RankWrap(fence, body) == fence.open \o RankText(body) \o fence.close

\* parse_ranking_response(body, tweets)
ParseRankingBare ==
    /\ parsing.kind = "ranking" /\ ~parsing.bare.done
    /\ parsing' = [parsing EXCEPT !.bare =
                       Returned(ParseRankingResponse(RankText(parsing.body), parsing.tws))]
    /\ UNCHANGED <<config, bot, tweets, post_log, cyc, last, scraper>>

\* parse_ranking_response(the body inside the fence, tweets)
ParseRankingFenced ==
    /\ parsing.kind = "ranking" /\ ~parsing.fenced.done
    /\ parsing' = [parsing EXCEPT !.fenced =
                       Returned(ParseRankingResponse(RankWrap(parsing.fence, parsing.body),
                                                     parsing.tws))]
    /\ UNCHANGED <<config, bot, tweets, post_log, cyc, last, scraper>>

InitRanking ==
    /\ config \in Configs
    /\ tweets = <<>>
    /\ post_log = <<>>
    /\ cyc = [p \in Procs |-> Idle]
    /\ last = Did(Timer, "init", "init")
    /\ scraper = NoCall
    /\ bot = NoBot
    /\ \E body \in RankBodies, tws \in KnownDrafts, fence \in Fences :
           parsing = [kind |-> "ranking", body |-> body, tws |-> tws, fence |-> fence,
                      bare |-> Pending, fenced |-> Pending]

NextRanking == ParseRankingBare \/ ParseRankingFenced

SpecRanking == InitRanking /\ [][NextRanking]_vars

-----------------------------------------------------------------------------
(* The interval job over a store that can fail: sqlite3 raises (database is *)
(* locked, disk full) from a Queue operation inside run_cycle's try block   *)

\* the Queue operations of the try block that may raise
StorageFailures == {"mark_posted", "queue_size"}

\* run_cycle, the try block, when Poster.post returned and a Queue operation then
\* raises: mark_posted rolls its transaction back (with conn: ...), queue_size is
\* read for the text of the "posted" notification after mark_posted committed;
\* either way except Exception sends the failure notification and returns None
TryPostStorageFails(queued, trends, analysis, tw, log, storage) ==
    LET call == [text |-> analysis.tweet_text,
                 media_path |-> MediaOf(queued, analysis.tweet_id)]
        tw2 == MarkPostedTweets(tw, analysis.tweet_id, analysis.matched_trend,
                                analysis.relevance_score, Now(tw, log))
        log2 == MarkPostedLog(log, tw2, analysis.tweet_id, analysis.relevance_score,
                              analysis.reasoning, TrendsJson(trends), Now(tw, log))
    IN  IF storage = "mark_posted"
        THEN Effect("mark_posted_raised", None, <<"failed">>, <<call>>, TRUE, <<>>, tw, log)
        ELSE Effect("queue_size_raised", None, <<"failed">>, <<call>>, TRUE,
                    <<analysis.tweet_id>>, tw2, log2)

\* run_cycle resumes with the provider's answer, passes the gates, posts, and the
\* store fails
RunCycleStorageFails(p, resp, storage) ==
    /\ cyc[p].pc = "llm" /\ cyc[p].op = "run_cycle"
    /\ LET analysis == AnalyzeTweets(resp, TweetsForLLM(cyc[p].queued)) IN
       /\ RunCycleGate(config, cyc[p].dry_run, analysis) = "post"
       /\ PostSucceeds(analysis.tweet_text, MediaOf(cyc[p].queued, analysis.tweet_id), TRUE)
       /\ RunCycleReturn(p, resp, "ok", analysis,
                         TryPostStorageFails(cyc[p].queued, cyc[p].trends, analysis,
                                             tweets, post_log, storage))
    /\ cyc' = [cyc EXCEPT ![p] = Idle]
    /\ UNCHANGED <<config, bot, scraper, parsing>>

NextStorage ==
    \/ \E hour \in Hours : TimerJob(hour)
    \/ \E h \in Handlers, text \in TypedTexts : CmdQueue(h, text)
    \/ \E p \in Procs, trends \in TrendResults : RunCycleTrends(p, trends)
    \/ \E p \in Procs, resp \in AnalysisAnswers : RunCycleAnalyze(p, resp)
    \/ \E p \in Procs, resp \in AnalysisAnswers, storage \in StorageFailures :
           RunCycleStorageFails(p, resp, storage)

SpecStorage == Init /\ [][NextStorage]_vars

-----------------------------------------------------------------------------
(* telegram_bot.py, discord_bot.py: the handlers with their senders, the chat *)
(* they answer to and the clock of the rate limit                             *)

\* telegram_bot.py: RATE_LIMIT_SECONDS
RATE_LIMIT_SECONDS == 30

\* the people who can write to the bot; a private chat has the id of its user
MaxUsers == 2
Users == 1..MaxUsers

\* ALLOWED_USER_IDS unset, or naming the first user only
AllowedSets == {{}, {1}}

\* the queue holds one draft less than the model stores, so that it can be full
SmallQueueSize == MaxTweets - 1

\* the last reading of time.monotonic() the model follows
MaxClock == 60

\* the seconds that may pass between two steps
Ticks == {RATE_LIMIT_SECONDS \div 2, RATE_LIMIT_SECONDS}

\* what the surroundings answer here: the texts typed, the hours (one inside the
\* window, one outside), and for each prompt a failure of the provider and one
\* reply that names the first draft
ChatTexts == {"", ShortText, LongText}
ChatHours == {PostingHoursStart, PostingHoursEnd}
ChatAnalysisAnswers ==
    {CompleteRaised, Reply(<<TJson(AnalysisObj(JInt(1), MinRelevanceScore, TRUE))>>)}
ChatRankAnswers ==
    {CompleteRaised, Reply(<<TJson(JObj([rankings |-> JArr(<<RankEntry(1, 85)>>)]))>>)}

ChatConfigs ==
    [posting_hours_start : {PostingHoursStart}, posting_hours_end : {PostingHoursEnd},
     min_relevance_score : {MinRelevanceScore}, auto_post : {TRUE},
     max_queue_size : {SmallQueueSize}, platform : {"telegram", "discord"},
     allowed_user_ids : AllowedSets]

\* _chat_id / _channel_id before any command: None
NoChat == 0

\* no expensive invocation has begun yet
NeverBegun == 0 - 1

\* TelegramBot.__init__ / DiscordBot.__init__: the bot object at clock reading now.
\* began is history: the reading at which the last run_cycle, rank_cycle or
\* post_tweet_by_id started from a chat command began
NewBot(now) ==
    [chat_id |-> NoChat, last_expensive_call |-> 0, monotonic |-> now, began |-> NeverBegun]

\* TelegramBot._is_authorized
IsAuthorized(cfg, user) ==
    IF cfg.allowed_user_ids = {} THEN TRUE ELSE user \in cfg.allowed_user_ids

\* who gets past the first lines of a handler: every Telegram handler starts with
\* _check_auth (or _is_authorized); no Discord command looks at allowed_user_ids
Admitted(cfg, user) == cfg.platform = "discord" \/ IsAuthorized(cfg, user)

\* TelegramBot._check_rate_limit returns True
CheckRateLimit(b) == ~(b.monotonic - b.last_expensive_call < RATE_LIMIT_SECONDS)

\* the command is turned away for coming too soon: /analyze, /top and /post call
\* _check_rate_limit; !analyze and !post call nothing of the kind
RateLimited(cfg, b) == cfg.platform = "telegram" /\ ~CheckRateLimit(b)

\* self._chat_id = update.effective_chat.id / self._channel_id = ctx.channel.id
Seen(b, user) == [b EXCEPT !.chat_id = user]

\* the bot object when an expensive invocation begins: _check_rate_limit stamps
\* _last_expensive_call (Telegram only)
Begun(cfg, b, user) ==
    [b EXCEPT !.chat_id = user,
              !.last_expensive_call = IF cfg.platform = "telegram" THEN b.monotonic ELSE @,
              !.began = b.monotonic]

\* the record of a handler step by user
DidBy(h, op, user) == [Did(h, op, "call") EXCEPT !.user = user]

\* a handler that returns at its authorization check
Unauthorized(h, op, user) ==
    /\ last' = [DidBy(h, op, user) EXCEPT !.outcome = "unauthorized"]
    /\ UNCHANGED <<config, tweets, post_log, cyc, scraper, parsing, bot>>

\* a handler that returns at its rate limit: the chat id is already set, the stamp
\* is left alone
TooSoon(h, op, user) ==
    /\ last' = [DidBy(h, op, user) EXCEPT !.outcome = "rate_limited"]
    /\ bot' = Seen(bot, user)
    /\ UNCHANGED <<config, tweets, post_log, cyc, scraper, parsing>>

\* time passes
Tick(seconds) ==
    /\ bot.monotonic + seconds <= MaxClock
    /\ bot' = [bot EXCEPT !.monotonic = @ + seconds]
    /\ last' = Did(Timer, "tick", "call")
    /\ UNCHANGED <<config, tweets, post_log, cyc, scraper, parsing>>

\* /queue <text> and !queue <text> (op "cmd_queue"), a plain text message to the
\* Telegram bot (op "handle_text")
ChatQueue(h, user, op, text) ==
    /\ ChatFree
    /\ cyc[h].pc = "idle"
    /\ op = "handle_text" => config.platform = "telegram"
    /\ IF ~Admitted(config, user) THEN Unauthorized(h, op, user)
       ELSE /\ bot' = Seen(bot, user)
            /\ QueueCommand([DidBy(h, op, user) EXCEPT !.text = text], text)
            /\ UNCHANGED <<config, post_log, cyc, scraper, parsing>>

\* /remove <id>, !remove <id>
ChatRemove(h, user, tweet_id) ==
    /\ ChatFree
    /\ cyc[h].pc = "idle"
    /\ IF ~Admitted(config, user) THEN Unauthorized(h, "cmd_remove", user)
       ELSE /\ bot' = Seen(bot, user)
            /\ tweets' = QueueRemove(tweets, tweet_id)
            /\ last' = [DidBy(h, "cmd_remove", user) EXCEPT
                            !.id = tweet_id,
                            !.outcome = IF RemoveMatches(tweets, tweet_id) THEN "removed"
                                        ELSE "not_found"]
            /\ UNCHANGED <<config, post_log, cyc, scraper, parsing>>

\* /start, /list, /status, /history, !list, !status: the chat id and a reply
ChatRead(h, user) ==
    /\ ChatFree
    /\ cyc[h].pc = "idle"
    /\ IF ~Admitted(config, user) THEN Unauthorized(h, "cmd_list", user)
       ELSE /\ bot' = Seen(bot, user)
            /\ last' = [DidBy(h, "cmd_list", user) EXCEPT !.outcome = "replied"]
            /\ UNCHANGED <<config, tweets, post_log, cyc, scraper, parsing>>

\* /trends, !trends: the chat id, a fetch of the trends, a reply; no rate limit
ChatTrends(h, user) ==
    /\ ChatFree
    /\ cyc[h].pc = "idle"
    /\ IF ~Admitted(config, user) THEN Unauthorized(h, "cmd_trends", user)
       ELSE /\ bot' = Seen(bot, user)
            /\ last' = [DidBy(h, "cmd_trends", user) EXCEPT !.outcome = "replied",
                                                            !.fetch = TRUE]
            /\ UNCHANGED <<config, tweets, post_log, cyc, scraper, parsing>>

\* /analyze, !analyze
ChatAnalyze(h, user, hour) ==
    /\ ChatFree
    /\ cyc[h].pc = "idle"
    /\ IF ~Admitted(config, user) THEN Unauthorized(h, "cmd_analyze", user)
       ELSE IF RateLimited(config, bot) THEN TooSoon(h, "cmd_analyze", user)
       ELSE bot' = Begun(config, bot, user) /\ RunCycleStart(h, TRUE, hour)

\* /post without an id, !post
ChatPost(h, user, hour) ==
    /\ ChatFree
    /\ cyc[h].pc = "idle"
    /\ IF ~Admitted(config, user) THEN Unauthorized(h, "cmd_post", user)
       ELSE IF RateLimited(config, bot) THEN TooSoon(h, "cmd_post", user)
       ELSE bot' = Begun(config, bot, user) /\ RunCycleStart(h, FALSE, hour)

\* /top <N>
ChatTop(h, user, limit) ==
    /\ config.platform = "telegram"
    /\ ChatFree
    /\ cyc[h].pc = "idle"
    /\ IF ~Admitted(config, user) THEN Unauthorized(h, "cmd_top", user)
       ELSE IF RateLimited(config, bot) THEN TooSoon(h, "cmd_top", user)
       ELSE bot' = Begun(config, bot, user) /\ RankCycleStart(h, limit)

\* /post <id>
ChatPostId(h, user, tweet_id, platformOk) ==
    /\ config.platform = "telegram"
    /\ ChatFree
    /\ cyc[h].pc = "idle"
    /\ IF ~Admitted(config, user) THEN Unauthorized(h, "cmd_post", user)
       ELSE IF RateLimited(config, bot) THEN TooSoon(h, "cmd_post", user)
       ELSE LET e == PostTweetById(tweet_id, tweets, post_log, platformOk) IN
            /\ bot' = Begun(config, bot, user)
            /\ tweets' = e.tweets
            /\ post_log' = e.post_log
            /\ last' = [DidEffect(h, "post_tweet_by_id", "call", FALSE, e) EXCEPT
                            !.id = tweet_id, !.user = user]
            /\ UNCHANGED <<config, cyc, scraper, parsing>>

InitChat ==
    /\ config \in ChatConfigs
    /\ tweets = <<>>
    /\ post_log = <<>>
    /\ cyc = [p \in Procs |-> Idle]
    /\ last = Did(Timer, "init", "init")
    /\ scraper = NoCall
    /\ parsing = NoCall
    /\ bot = NewBot(RATE_LIMIT_SECONDS)

NextChat ==
    \/ \E seconds \in Ticks : Tick(seconds)
    \/ \E hour \in ChatHours : TimerJob(hour)
    \/ \E h \in Handlers, user \in Users, op \in {"cmd_queue", "handle_text"},
          text \in ChatTexts : ChatQueue(h, user, op, text)
    \/ \E h \in Handlers, user \in Users, id \in 1..(MaxTweets + 1) : ChatRemove(h, user, id)
    \/ \E h \in Handlers, user \in Users : ChatRead(h, user)
    \/ \E h \in Handlers, user \in Users : ChatTrends(h, user)
    \/ \E h \in Handlers, user \in Users, hour \in ChatHours : ChatAnalyze(h, user, hour)
    \/ \E h \in Handlers, user \in Users, hour \in ChatHours : ChatPost(h, user, hour)
    \/ \E h \in Handlers, user \in Users, limit \in Limits : ChatTop(h, user, limit)
    \/ \E h \in Handlers, user \in Users, id \in 1..(MaxTweets + 1), ok \in BOOLEAN :
           ChatPostId(h, user, id, ok)
    \/ \E p \in Procs, trends \in TrendResults : RunCycleTrends(p, trends)
    \/ \E p \in Procs, resp \in ChatAnalysisAnswers : RunCycleAnalyze(p, resp)
    \/ \E p \in Procs, trends \in TrendResults : RankCycleTrends(p, trends)
    \/ \E p \in Procs, resp \in ChatRankAnswers : RankCycleRank(p, resp)

SpecChat == InitChat /\ [][NextChat]_vars

-----------------------------------------------------------------------------
(* The claims *)

\* the table rows a step left as they were
TablesUnchanged == tweets' = tweets /\ post_log' = post_log

\* C1: each draft is posted at most once: post_log never holds two entries for the
\* same draft id (every successful Poster.post is followed by one entry).
C1_PostedAtMostOnce ==
    \A i, j \in 1..Len(post_log) :
        post_log[i].tweet_id = post_log[j].tweet_id => i = j

\* C2: a draft's status changes only away from queued: once posted, removed or
\* expired it keeps that status in every later step.
C2_TerminalStatusKept ==
    [][\A i \in 1..Len(tweets) :
           tweets[i].status # "queued" => tweets'[i].status = tweets[i].status]_vars

\* C3: no step of a run_cycle(dry_run=True) calls Poster.post or changes the
\* drafts or post_log.
C3_DryRunReadOnly ==
    [][(last'.op = "run_cycle" /\ last'.dry_run)
           => (TablesUnchanged /\ last'.poster = <<>> /\ last'.marked = <<>>)]_vars

\* C3 witness: a dry run whose analysis passed every gate has returned.
C3_DryRunPassedGates ==
    /\ last.op = "run_cycle" /\ last.dry_run /\ last.stage = "analyze"
    /\ last.ret.kind = "analysis"
    /\ last.ret.relevance_score >= config.min_relevance_score

\* C4: run_cycle(dry_run=False) started at an hour outside [start, end) returns None
\* at once: no trend fetch, no model call, no Poster call, no notification, the
\* tables and every task as before.
C4_OutsideHoursNothingHappens ==
    [][(/\ last'.op = "run_cycle" /\ last'.stage = "start" /\ ~last'.dry_run
        /\ (\/ last'.hour < config.posting_hours_start
            \/ last'.hour >= config.posting_hours_end))
           => (/\ last'.done /\ last'.ret = None
               /\ ~last'.fetch /\ ~last'.llm
               /\ last'.poster = <<>> /\ last'.notes = <<>>
               /\ TablesUnchanged /\ cyc' = cyc)]_vars

\* C4 witness: a cycle was refused for the hour although drafts were queued.
C4_RefusedWithDraftsQueued ==
    /\ last.op = "run_cycle" /\ last.stage = "start" /\ ~last.dry_run
    /\ last.hour >= config.posting_hours_end
    /\ last.done
    /\ QueueSize(tweets) > 0

C6_PostFailureLeavesQueue ==
    [][(last'.op = "run_cycle" /\ last'.poster # <<>> /\ ~last'.posted)
           => (/\ TablesUnchanged
               /\ last'.marked = <<>>
               /\ last'.notes = <<"failed">>
               /\ last'.ret = None)]_vars

\* C6 witness: Poster.post failed for a draft that is queued, and it still is.
C6_PostFailedDraftQueued ==
    /\ last.op = "run_cycle" /\ last.poster # <<>> /\ ~last.posted
    /\ last.analysis.tweet_id \in 1..Len(tweets)
    /\ tweets[last.analysis.tweet_id].status = "queued"
    /\ last.poster[1].text = tweets[last.analysis.tweet_id].text

SchedulerOps == {"run_cycle", "rank_cycle", "post_tweet_by_id"}

C8_AtMostOneNotification ==
    last.op = "run_cycle" =>
        /\ Len(last.notes) <= 1
        /\ ~last.done => last.notes = <<>>
        /\ last.posted => last.notes = <<"posted">>
        /\ (last.poster # <<>> /\ ~last.posted) => last.notes = <<"failed">>
        /\ (last.done /\ last.stage = "trends") => last.notes = <<"no_trends">>
        /\ (last.stage = "start") => last.notes = <<>>
        /\ (last.stage = "analyze" /\ last.poster = <<>>) =>
               last.notes = IF /\ last.dry_run
                               /\ last.analysis # None
                               /\ last.analysis.relevance_score >= config.min_relevance_score
                            THEN <<"dry_run">> ELSE <<>>

\* C8 witness: a cycle posted and sent its one notification.
C8_PostedAndNotified ==
    last.op = "run_cycle" /\ last.posted /\ last.notes = <<"posted">>

\* C9: at most one run_cycle is in flight at any time.
C9_SingleFlight ==
    Cardinality({p \in Procs : cyc[p].op = "run_cycle"}) <= 1

\* C10: Queue.add with a text of more than 280 characters fails and stores nothing.
C10_AddRejectsLongText ==
    [][(last'.op = "Queue.add" /\ Len(last'.text) > MaxTweetLen)
           => (last'.ret.kind = "raise" /\ tweets' = tweets)]_vars

\* C11: every Queue.add returns a draft with exactly the given text and status
\* queued, under an id greater than every id handed out before (the ids of the
\* rows the table holds, none of which is ever deleted), also when the draft with
\* the highest id has been removed or posted; the rows added before keep theirs.
C11_AddReturnsFreshId ==
    [][last'.op = "Queue.add" =>
           /\ last'.ret.kind = "tweet"
           /\ last'.ret.text = last'.text
           /\ last'.ret.status = "queued"
           /\ last'.ret.id > Len(tweets)
           /\ Len(tweets') = Len(tweets) + 1
           /\ \A i \in 1..Len(tweets) : tweets'[i] = tweets[i]
           /\ last'.ret.id \in 1..Len(tweets')
           /\ tweets'[last'.ret.id].text = last'.text
           /\ tweets'[last'.ret.id].status = "queued"]_vars

\* an add that follows the removal or the posting of the draft with the highest id
C11_AddedAfterHighestGone ==
    /\ last.op = "Queue.add"
    /\ last.id = 2
    /\ tweets[1].status \in {"removed", "posted"}

\* C12: Queue.remove(id) returns true and sets the status to removed exactly when
\* the draft exists and is queued; in every other case it returns false and changes
\* nothing; a second remove of the same id right after a first that returned true
\* returns false.
C12_RemoveOnlyQueued ==
    [][last'.op = "Queue.remove" =>
           /\ post_log' = post_log
           /\ IF last'.id \in 1..Len(tweets) /\ tweets[last'.id].status = "queued"
              THEN /\ last'.ret = [kind |-> "bool", b |-> TRUE]
                   /\ tweets' = [tweets EXCEPT ![last'.id].status = "removed"]
              ELSE /\ last'.ret = [kind |-> "bool", b |-> FALSE]
                   /\ tweets' = tweets
           /\ (last.op = "Queue.remove" /\ last.id = last'.id /\ last.ret.b)
                  => ~last'.ret.b]_vars

\* the second of two consecutive removes of a draft that was queued
C12_SecondRemoveFalse ==
    /\ last.op = "Queue.remove"
    /\ ~last.ret.b
    /\ last.id \in 1..Len(tweets)
    /\ tweets[last.id].status = "removed"

\* C13 as stated: after mark_posted on a queued draft the draft is not in
\* list_queued(), get_post_history() has exactly one more entry than before, the
\* new one carrying the id and the score, and no other draft's status changes.
C13_MarkPostedOneMoreEntry ==
    [][last'.op = "Queue.mark_posted" =>
           LET before == GetPostHistory(post_log, HistoryLimit)
               after == GetPostHistory(post_log', HistoryLimit)
               queued == ListQueued(tweets')
           IN  /\ \A k \in 1..Len(queued) : queued[k].id # last'.id
               /\ Len(after) = Len(before) + 1
               /\ after[1].tweet_id = last'.id
               /\ after[1].relevance_score = last'.score
               /\ Tail(after) = before
               /\ \A i \in 1..Len(tweets) :
                      i # last'.id => tweets'[i].status = tweets[i].status]_vars

\* C13, amended: get_post_history() afterwards starts with the new entry (the id,
\* the score) followed by what it returned before, cut to its limit of 10: one
\* entry more than before while fewer than 10 posts were logged, as many as before
\* (the oldest one dropped) from then on.
C13_MarkPostedHistoryWithinLimit ==
    [][last'.op = "Queue.mark_posted" =>
           LET before == GetPostHistory(post_log, HistoryLimit)
               after == GetPostHistory(post_log', HistoryLimit)
               queued == ListQueued(tweets')
           IN  /\ \A k \in 1..Len(queued) : queued[k].id # last'.id
               /\ after[1].tweet_id = last'.id
               /\ after[1].relevance_score = last'.score
               /\ IF Len(post_log) < HistoryLimit
                  THEN Len(after) = Len(before) + 1 /\ Tail(after) = before
                  ELSE /\ Len(after) = HistoryLimit
                       /\ Len(before) = HistoryLimit
                       /\ Tail(after) = SubSeq(before, 1, HistoryLimit - 1)
               /\ \A i \in 1..Len(tweets) :
                      i # last'.id => tweets'[i].status = tweets[i].status]_vars

\* a mark_posted with the history already at its limit
C13_PostedBeyondLimit ==
    /\ last.op = "Queue.mark_posted"
    /\ Len(post_log) > HistoryLimit
    /\ tweets[last.id].status = "posted"

\* C14: Queue.mark_posted with an id no draft has fails with a not-found error and
\* appends no post log entry.
C14_MarkPostedUnknownIdFails ==
    [][(last'.op = "Queue.mark_posted" /\ last'.id \notin 1..Len(tweets))
           => (last'.ret.kind = "raise" /\ post_log' = post_log)]_vars

\* C15: in every reachable state list_queued() holds exactly the drafts whose
\* status is queued, each once, oldest first (by added_at, which is the order they
\* were added in), and queue_size() is the length of that list.
C15_ListQueuedOldestFirst ==
    LET q == ListQueued(tweets)
        ids == {i \in 1..Len(tweets) : tweets[i].status = "queued"}
    IN  /\ {q[k].id : k \in 1..Len(q)} = ids
        /\ Len(q) = Cardinality(ids)
        /\ \A k \in 1..Len(q) : /\ q[k].text = tweets[q[k].id].text
                                 /\ q[k].added_at = tweets[q[k].id].added_at
        /\ \A j, k \in 1..Len(q) :
               j < k => (q[j].added_at < q[k].added_at /\ q[j].id < q[k].id)
        /\ QueueSize(tweets) = Len(q)

\* two drafts waiting, a post log row written between their additions
C15_TwoQueuedApart ==
    /\ Len(ListQueued(tweets)) = 2
    /\ tweets[2].added_at > tweets[1].added_at + 1

\* the trends source i gives: nothing when its fetch or its parser fails
Yield(i) ==
    LET a == scraper.answers[i] IN
    IF a.kind = "page" THEN Parse(TREND_SOURCES[i], a.html) ELSE <<>>

\* C16: get_trends never raises: a source that fails (no connection, a status that
\* is not 2xx, a parser error) is skipped and the result is what the next source
\* gives; when every source fails or gives nothing the result is the empty sequence.
C16_GetTrendsNeverRaises ==
    scraper.kind = "call" =>
        /\ ~scraper.raised
        /\ scraper.done =>
              /\ (scraper.answers[1].kind = "raise" /\ Len(Yield(2)) > 0)
                     => scraper.trends = Take(Yield(2), TrendCap)
              /\ (\A i \in 1..Len(TREND_SOURCES) : Len(Yield(i)) = 0)
                     => scraper.trends = <<>>

\* the parser of the first source raised and the second source's trends came back
C16_FellThroughToSecond ==
    /\ scraper.kind = "call" /\ scraper.done
    /\ scraper.answers[1] = FeatureNotFound
    /\ Len(scraper.trends) > 0

\* C17: get_trends fetches the sources one after another in their fixed order and
\* returns the first 30 trends, in source order, of the first source that gives at
\* least one; no source behind that one is fetched, and a source that gives no
\* trend is passed over like a failed one.
C17_FirstYieldingSourceWins ==
    scraper.kind = "call" =>
        /\ scraper.fetched = SubSeq(TREND_SOURCES, 1, Len(scraper.fetched))
        /\ \A i \in 1..Len(scraper.fetched) :
               i < Len(scraper.fetched) => Len(Yield(i)) = 0
        /\ scraper.done =>
              LET yielding == {i \in 1..Len(TREND_SOURCES) : Len(Yield(i)) > 0} IN
              IF yielding = {}
              THEN /\ scraper.trends = <<>>
                   /\ Len(scraper.fetched) = Len(TREND_SOURCES)
              ELSE LET first == CHOOSE i \in yielding : \A k \in yielding : i <= k
                       all == Yield(first)
                   IN  /\ Len(scraper.fetched) = first
                       /\ Len(scraper.trends) = IF Len(all) > TrendCap THEN TrendCap
                                                ELSE Len(all)
                       /\ \A n \in 1..Len(scraper.trends) : scraper.trends[n] = all[n]

\* the first source gave nothing, the second more than 30 trends
C17_CutToThirty ==
    /\ scraper.kind = "call" /\ scraper.done
    /\ scraper.answers[1].kind = "page"
    /\ scraper.fetched = TREND_SOURCES
    /\ Len(Yield(2)) > TrendCap
    /\ Len(scraper.trends) = TrendCap

\* the names a page carries for source i, in page order, as get_text gives them
PageNames(i) ==
    LET html == scraper.answers[i].html IN
    IF TREND_SOURCES[i] = "trends24"
    THEN LET anchors == CardAnchors(html) IN
         [k \in 1..Len(anchors) |-> GetTextStrip(anchors[k])]
    ELSE [k \in 1..Len(html) |->
             IF html[k].anchor = None THEN "" ELSE GetTextStrip(html[k].anchor.v)]

\* equal ignoring case; the texts of the pages are letters of one alphabet
SameIgnoringCase(a, b) ==
    \/ a = b
    \/ {a, b} = {"AI", "ai"}

\* C18: the trends parsed from one source's page hold no two names equal ignoring
\* case; of the names equal ignoring case the first one on the page is kept, and
\* the kept ones stand in the order they first appear in.
C18_DedupIgnoringCase ==
    scraper.kind = "call" =>
        \A i \in 1..Len(scraper.parsed) :
            scraper.answers[i].kind = "page" =>
                LET names == PageNames(i)
                    trends == scraper.parsed[i]
                    kept == {k \in 1..Len(names) :
                                /\ names[k] # ""
                                /\ \A j \in 1..(k - 1) : ~SameIgnoringCase(names[j], names[k])}
                IN  /\ \A m, n \in 1..Len(trends) :
                           m # n => ~SameIgnoringCase(trends[m].name, trends[n].name)
                    /\ Len(trends) = Cardinality(kept)
                    /\ \A n \in 1..Len(trends) :
                           \E k \in kept : /\ Cardinality({j \in kept : j < k}) = n - 1
                                           /\ trends[n].name = names[k]

\* a page naming one trend in two spellings, with another trend behind them
C18_TwoSpellingsOnPage ==
    /\ scraper.kind = "call" /\ Len(scraper.parsed) > 0
    /\ scraper.answers[1].kind = "page"
    /\ CardAnchors(scraper.answers[1].html) = <<"ai", "AI", "Rust">>
    /\ scraper.parsed[1] = <<Trend("ai", None), Trend("Rust", None)>>

\* a reply object as the prompt asks for it: all five keys, best_tweet_id an
\* integer or null, relevance_score an integer, matched_trend a string or null,
\* reasoning a string, should_post a boolean
WellFormed(j) ==
    /\ IsObj(j)
    /\ DOMAIN j.obj = {"best_tweet_id", "relevance_score", "matched_trend", "reasoning",
                       "should_post"}
    /\ IsInt(j.obj["best_tweet_id"]) \/ IsNull(j.obj["best_tweet_id"])
    /\ IsInt(j.obj["relevance_score"])
    /\ IsStr(j.obj["matched_trend"]) \/ IsNull(j.obj["matched_trend"])
    /\ IsStr(j.obj["reasoning"])
    /\ IsBool(j.obj["should_post"])

\* C19: for a well-formed reply object parse_analysis_response returns None exactly
\* when should_post is false or best_tweet_id is null; otherwise a TweetAnalysis
\* whose tweet_id and relevance_score are the reply's, whose should_post is true and
\* whose tweet_text is the text of the known draft with that id.
C19_ParseSingleWellFormed ==
    (parsing.kind = "call" /\ parsing.bare.done /\ WellFormed(parsing.body)) =>
        LET o == parsing.body.obj
            r == parsing.bare.r
        IN  IF ~o["should_post"].bool \/ IsNull(o["best_tweet_id"])
            THEN r = None
            ELSE /\ r.kind = "analysis"
                 /\ r.tweet_id = o["best_tweet_id"].int
                 /\ r.relevance_score = o["relevance_score"].int
                 /\ r.should_post = TRUE
                 /\ \A i \in 1..Len(parsing.tws) :
                        parsing.tws[i].id = r.tweet_id => r.tweet_text = parsing.tws[i].text

\* a well-formed reply naming a known draft was parsed into an analysis
C19_KnownDraftParsed ==
    /\ parsing.kind = "call" /\ parsing.bare.done /\ WellFormed(parsing.body)
    /\ parsing.bare.r.kind = "analysis"
    /\ parsing.bare.r.tweet_id = 1
    /\ parsing.bare.r.tweet_text = ShortText

\* C20: for every JSON reply body parse_analysis_response gives the same result for
\* the body inside a fenced code block, with or without a language tag on the
\* opening fence, as for the body alone.
C20_FencedParsesAsBare ==
    (parsing.kind = "call" /\ parsing.bare.done /\ parsing.fenced.done) =>
        parsing.fenced.r = parsing.bare.r

\* a body inside a fence with a language tag was parsed into an analysis both ways
C20_TaggedFenceParsed ==
    /\ parsing.kind = "call" /\ parsing.bare.done /\ parsing.fenced.done
    /\ parsing.fence.open = <<TFence, TWord("json"), TNewline>>
    /\ parsing.fenced.r.kind = "analysis"

\* C21: parse_analysis_response never raises: whatever the text of the reply, it
\* returns None or a TweetAnalysis.
C21_ParseSingleNeverRaises ==
    (parsing.kind = "call" /\ parsing.bare.done) =>
        parsing.bare.r.kind \in {"none", "analysis"}

\* the keys the reply object is asked to carry
RequiredKeys == {"best_tweet_id", "relevance_score", "matched_trend", "reasoning",
                 "should_post"}

\* C22: parse_analysis_response returns None whenever the reply object lacks one of
\* the keys best_tweet_id, relevance_score, matched_trend, reasoning, should_post.
C22_MissingKeyGivesNone ==
    (/\ parsing.kind = "call" /\ parsing.bare.done
     /\ IsObj(parsing.body)
     /\ ~(RequiredKeys \subseteq DOMAIN parsing.body.obj)) =>
        parsing.bare.r = None

\* the entries of the reply's rankings array (none when the body has no such array)
RankingsOf(body) ==
    IF DOMAIN body = {"obj"} /\ "rankings" \in DOMAIN body.obj /\ IsArr(body.obj["rankings"])
    THEN body.obj["rankings"].arr
    ELSE <<>>

\* the entry names a draft of tws
NamesDraft(e, tws) == IsObj(e) /\ "id" \in DOMAIN e.obj /\ InTweets(tws, e.obj["id"].int)

\* the ids of the entries of the array that name a draft of tws and score s, in
\* the array's order
EntryIdsScoring(body, tws, s) ==
    LET Scores_s(e) == /\ NamesDraft(e, tws)
                       /\ ~IntRaises(Get(e, "relevance_score", JInt(0)))
                       /\ IntOf(Get(e, "relevance_score", JInt(0))) = s
        kept == SelectSeq(RankingsOf(body), Scores_s)
    IN  [k \in 1..Len(kept) |-> kept[k].obj["id"].int]

\* the ids of the results that score s, in the results' order
ResultIdsScoring(items, s) ==
    LET Scores_s(x) == x.relevance_score = s
        kept == SelectSeq(items, Scores_s)
    IN  [k \in 1..Len(kept) |-> kept[k].tweet_id]

\* the calls of parse_ranking_response that returned a list
RankingResults ==
    IF parsing.kind = "ranking"
    THEN {res \in {parsing.bare, parsing.fenced} : res.done /\ res.r.kind = "list"}
    ELSE {}

\* C23: the results of parse_ranking_response are in non-increasing relevance_score
\* order, and results with equal score are in the order their entries have in the
\* reply's rankings array.
C23_RankingSortedStable ==
    \A res \in RankingResults :
        LET items == res.r.items IN
        /\ \A i, j \in 1..Len(items) :
               i < j => items[i].relevance_score >= items[j].relevance_score
        /\ \A k \in 1..Len(items) :
               ResultIdsScoring(items, items[k].relevance_score)
                   = EntryIdsScoring(parsing.body, parsing.tws, items[k].relevance_score)

\* a reply listing two drafts with the same score ahead of an entry that scores
\* higher: the sort moved the last entry to the front and kept the tie's order
C23_TieBehindHigherScore ==
    /\ parsing.kind = "ranking" /\ parsing.bare.done /\ parsing.bare.r.kind = "list"
    /\ LET items == parsing.bare.r.items
           arr == RankingsOf(parsing.body)
       IN  /\ Len(items) = 3 /\ Len(arr) = 3
           /\ items[2].relevance_score = items[3].relevance_score
           /\ items[2].tweet_id # items[3].tweet_id
           /\ items[1].relevance_score > items[2].relevance_score
           /\ Get(arr[3], "relevance_score", JNull) = JInt(items[1].relevance_score)
           /\ arr[1].obj["id"] = JInt(items[2].tweet_id)

\* the reply without the entries of its rankings array whose id is no draft's
WithoutUnknownIds(body, tws) ==
    IF DOMAIN body = {"obj"} /\ "rankings" \in DOMAIN body.obj /\ IsArr(body.obj["rankings"])
    THEN LET Stays(e) == ~(IsObj(e) /\ "id" \in DOMAIN e.obj /\ ~InTweets(tws, e.obj["id"].int))
         IN  JObj([rankings |-> JArr(SelectSeq(body.obj["rankings"].arr, Stays))])
    ELSE body

\* C24: every result of parse_ranking_response names a draft of the drafts passed in
\* and carries that draft's text, and its should_post is true exactly when its
\* relevance_score is above 0; the call gives what it gives for the reply without
\* the entries whose id is no draft's.
C24_RankingKnownDraftsOnly ==
    /\ \A res \in RankingResults :
           \A k \in 1..Len(res.r.items) :
               LET x == res.r.items[k] IN
               /\ \E i \in 1..Len(parsing.tws) :
                      parsing.tws[i].id = x.tweet_id /\ parsing.tws[i].text = x.tweet_text
               /\ x.should_post <=> x.relevance_score > 0
    /\ (parsing.kind = "ranking" /\ parsing.bare.done) =>
           parsing.bare.r = ParseRankingResponse(
                                RankText(WithoutUnknownIds(parsing.body, parsing.tws)),
                                parsing.tws)
    /\ (parsing.kind = "ranking" /\ parsing.fenced.done) =>
           parsing.fenced.r = ParseRankingResponse(
                                  RankWrap(parsing.fence,
                                           WithoutUnknownIds(parsing.body, parsing.tws)),
                                  parsing.tws)

\* a reply whose second entry names no draft, between one scoring 0 and one
\* scoring above: two results, the first to post, the second not
C24_UnknownBetweenKnown ==
    /\ parsing.kind = "ranking" /\ parsing.bare.done /\ parsing.bare.r.kind = "list"
    /\ LET items == parsing.bare.r.items
           arr == RankingsOf(parsing.body)
       IN  /\ Len(arr) = 3 /\ Len(items) = 2
           /\ NamesDraft(arr[1], parsing.tws) /\ NamesDraft(arr[3], parsing.tws)
           /\ IsObj(arr[2]) /\ "id" \in DOMAIN arr[2].obj /\ ~NamesDraft(arr[2], parsing.tws)
           /\ Get(arr[1], "relevance_score", JNull) = JInt(0)
           /\ items[1].should_post /\ ~items[2].should_post
           /\ items[2].tweet_id = arr[1].obj["id"].int

\* C25: parse_ranking_response never raises: whatever the reply, it returns a list
\* (the empty one for a reply that is not of the schema).
C25_ParseRankingNeverRaises ==
    (parsing.kind = "ranking" /\ parsing.bare.done) => parsing.bare.r.kind = "list"

\* the empty list rank_cycle returns
NoRankings == [kind |-> "list", items |-> <<>>]

\* C26: a step of rank_cycle(limit) calls Poster never and leaves drafts and
\* post_log as they were; with no queued draft, or with no trends, it returns the
\* empty list and does not go on to the model; after the model's answer it
\* returns the first limit entries of the parsed ranking, at most limit entries.
C26_RankCycleReadOnlyTruncated ==
    [][(last'.op = "rank_cycle") =>
           LET p == last'.proc IN
           /\ TablesUnchanged
           /\ last'.poster = <<>> /\ last'.marked = <<>> /\ ~last'.posted
           /\ (last'.stage = "start" /\ QueueSize(tweets) = 0) =>
                  /\ last'.done /\ last'.ret = NoRankings
                  /\ ~last'.fetch /\ ~last'.llm /\ cyc'[p].pc = "idle"
           /\ (last'.stage = "trends") =>
                  IF last'.done
                  THEN last'.ret = NoRankings /\ ~last'.llm /\ cyc'[p].pc = "idle"
                  ELSE last'.llm /\ Len(cyc'[p].trends) > 0 /\ Len(cyc'[p].queued) > 0
           /\ (last'.stage = "rank") =>
                  /\ last'.done /\ last'.ret.kind = "list"
                  /\ Len(last'.ret.items) <= cyc[p].limit
                  /\ \E resp \in RankAnswers :
                         LET parsed == RankTweets(resp, TweetsForLLM(cyc[p].queued))
                             n == IF cyc[p].limit < Len(parsed) THEN cyc[p].limit
                                  ELSE Len(parsed)
                         IN  last'.ret.items = [k \in 1..n |-> parsed[k]]]_vars

\* /top 1 with both drafts queued: the one result is the draft the reply scored
\* highest, the other one is cut
C26_TopOneOfTwo ==
    /\ last.op = "rank_cycle" /\ last.stage = "rank" /\ last.limit = 1
    /\ Len(last.ret.items) = 1
    /\ last.ret.items[1].tweet_id = 2 /\ last.ret.items[1].relevance_score = 85
    /\ Len(tweets) = 2 /\ tweets[1].status = "queued" /\ tweets[2].status = "queued"

\* C27: post_tweet_by_id(id) with an id that is not the id of a draft whose status
\* is queued (no such row, or a row removed or posted) returns None, calls Poster
\* never and leaves drafts and post_log as they were.
C27_PostByIdNotQueued ==
    [][(/\ last'.op = "post_tweet_by_id"
        /\ ~(last'.id \in 1..Len(tweets) /\ tweets[last'.id].status = "queued")) =>
           /\ last'.ret = None
           /\ last'.poster = <<>> /\ last'.marked = <<>>
           /\ TablesUnchanged]_vars

\* /post <id> for a draft that has been posted already
C27_PostByIdOfPostedDraft ==
    /\ last.op = "post_tweet_by_id" /\ last.outcome = "not_found"
    /\ last.id \in 1..Len(tweets)
    /\ tweets[last.id].status = "posted"
    /\ last.ret = None /\ last.poster = <<>>

\* the queued draft a post_tweet_by_id step is for
ManualPostOfQueued ==
    /\ last'.op = "post_tweet_by_id"
    /\ last'.id \in 1..Len(tweets)
    /\ tweets[last'.id].status = "queued"

\* what both readings of C28 share: Poster.post is called once with the draft's
\* text; when it returns, the draft becomes posted and post_log grows by one entry
\* for it with score 0; when it raises, the exception leaves post_tweet_by_id and
\* drafts and post_log are as they were
ManualPostOutcome ==
    LET id == last'.id IN
    /\ Len(last'.poster) = 1 /\ last'.poster[1].text = tweets[id].text
    /\ IF last'.posted
       THEN /\ last'.ret.kind = "result"
            /\ Len(tweets') = Len(tweets)
            /\ tweets'[id].status = "posted"
            /\ \A k \in 1..Len(tweets) : k # id => tweets'[k] = tweets[k]
            /\ Len(post_log') = Len(post_log) + 1
            /\ SubSeq(post_log', 1, Len(post_log)) = post_log
            /\ post_log'[Len(post_log')].tweet_id = id
            /\ post_log'[Len(post_log')].relevance_score = 0
       ELSE /\ last'.ret.kind = "raise"
            /\ TablesUnchanged

\* C28 as stated: post_tweet_by_id on a queued draft: if Poster.post succeeds the
\* draft becomes posted with exactly one new post_log entry that records the trend
\* "manual" and score 0; if it raises, the exception propagates and the draft
\* stays queued with no entry added.
C28_ManualPostLogsManualTrend ==
    [][ManualPostOfQueued =>
           /\ ManualPostOutcome
           /\ last'.posted => post_log'[Len(post_log')].trends = <<"manual">>]_vars

\* C28 (amended): post_tweet_by_id on a queued draft: if Poster.post succeeds the
\* draft becomes posted with matched_trend "manual" and relevance_score 0, and
\* exactly one post_log entry is added for it, with score 0 and an empty trends
\* snapshot; if it raises, the exception propagates and the draft stays queued
\* with no entry added.
C28_ManualPostMarksDraftManual ==
    [][ManualPostOfQueued =>
           /\ ManualPostOutcome
           /\ last'.posted =>
                  /\ tweets'[last'.id].matched_trend = JStr("manual")
                  /\ tweets'[last'.id].relevance_score = Some(0)
                  /\ post_log'[Len(post_log')].trends = <<>>]_vars

\* /post <id> went through: the draft carries "manual", the newest post_log entry
\* is its own and has no trends
C28_ManualPostLogged ==
    /\ last.op = "post_tweet_by_id" /\ last.posted
    /\ tweets[last.id].matched_trend = JStr("manual")
    /\ post_log[Len(post_log)].tweet_id = last.id
    /\ post_log[Len(post_log)].trends = <<>>
    /\ post_log[Len(post_log)].relevance_score = 0

\* C29: when provider.complete raises, nothing propagates: the run_cycle step
\* returns None, calls Poster never, leaves drafts and post_log as they were and
\* notifies nobody; the rank_cycle step returns the empty list.
C29_CompleteFailureIsNoResult ==
    [][last'.raised =>
           /\ last'.done
           /\ (last'.op = "run_cycle") =>
                  /\ last'.ret = None
                  /\ last'.poster = <<>> /\ last'.marked = <<>>
                  /\ last'.notes = <<>>
                  /\ TablesUnchanged
           /\ (last'.op = "rank_cycle") => last'.ret = NoRankings]_vars

\* complete raised in a cycle that was to post, with a draft queued
C29_CompleteRaisedInPostingCycle ==
    /\ last.op = "run_cycle" /\ last.stage = "analyze" /\ last.raised
    /\ ~last.dry_run
    /\ QueueSize(tweets) > 0
    /\ last.ret = None

\* C30: what a run_cycle step returns, the calls it makes to Poster and the drafts
\* and post_log it leaves are the same whether the notify callback returns,
\* raises or was never set.
C30_NotifierNeverChangesOutcome ==
    [][(last'.op = "run_cycle" /\ last'.done /\ last'.stage \in {"trends", "analyze"}) =>
           LET p == last'.proc IN
           \E platformOk \in BOOLEAN :
               \A cb \in Callbacks :
                   LET e == IF last'.stage = "trends"
                            THEN NoTrends(tweets, post_log, cb)
                            ELSE RunCycleFinish(config, cyc[p].dry_run, cyc[p].queued,
                                                cyc[p].trends, last'.analysis, tweets,
                                                post_log, platformOk, cb)
                   IN  /\ e.ret = last'.ret
                       /\ e.poster = last'.poster
                       /\ e.tweets = tweets'
                       /\ e.post_log = post_log']_vars

\* a cycle posted, its callback raised, and it returned the analysis all the same
C30_PostedWithRaisingCallback ==
    /\ last.op = "run_cycle" /\ last.cb = "raises"
    /\ last.posted /\ last.notes = <<"posted">>
    /\ last.ret = last.analysis
    /\ tweets[last.analysis.tweet_id].status = "posted"

\* C33: drafts are never physically deleted or rewritten: after any operation of
\* the Queue every draft stored before it is still stored under its id (its row
\* number) with its text and the time it was added, and the stored ids only grow.
C33_DraftsNeverDeletedOrRewritten ==
    [][/\ Len(tweets') >= Len(tweets)
       /\ \A i \in 1..Len(tweets) :
              /\ tweets'[i].text = tweets[i].text
              /\ tweets'[i].added_at = tweets[i].added_at
              /\ tweets'[i].media_path = tweets[i].media_path]_vars

\* a removed draft and a posted one, both still stored with their texts
C33_RemovedAndPostedStillStored ==
    /\ last.op = "Queue.remove"
    /\ last.ret.b
    /\ tweets[last.id].status = "removed"
    /\ tweets[last.id].text = Text280
    /\ \E k \in 1..Len(tweets) : tweets[k].status = "posted" /\ tweets[k].text = ShortText

\* C34: run_cycle calls Poster.post exactly when all gates hold in that invocation:
\* dry_run is false, the hour h it read at its start has posting_hours_start <= h <
\* posting_hours_end, the parsed result has should_post true and relevance_score >=
\* min_relevance_score (a score equal to the minimum is posted; with a start that is
\* not before the end no hour passes, so no cycle posts).
C34_PosterOnlyThroughAllGates ==
    [][(last'.op = "run_cycle" /\ last'.stage = "analyze")
           => (last'.poster # <<>>
                  <=> /\ ~cyc[last'.proc].dry_run
                      /\ config.posting_hours_start <= cyc[last'.proc].hour
                      /\ cyc[last'.proc].hour < config.posting_hours_end
                      /\ last'.analysis # None
                      /\ last'.analysis.should_post
                      /\ last'.analysis.relevance_score >= config.min_relevance_score)]_vars

\* a cycle posted a draft whose score was exactly the minimum
C34_PostedAtMinimumScore ==
    /\ last.op = "run_cycle" /\ last.stage = "analyze"
    /\ last.posted
    /\ last.analysis.relevance_score = config.min_relevance_score
    /\ tweets[last.analysis.tweet_id].status = "posted"

C36_PostsOnlyFetchedDrafts ==
    [][(last'.op = "run_cycle" /\ last'.stage = "analyze"
        /\ (last'.poster # <<>> \/ last'.marked # <<>>))
           => \E i \in 1..Len(cyc[last'.proc].queued) :
                  /\ cyc[last'.proc].queued[i].id = last'.analysis.tweet_id
                  /\ \A k \in 1..Len(last'.poster) :
                         last'.poster[k].text = cyc[last'.proc].queued[i].text
                  /\ \A k \in 1..Len(last'.marked) :
                         last'.marked[k] = cyc[last'.proc].queued[i].id]_vars

\* C37: once remove(id) has returned true (the draft's status is removed), no later
\* step of any operation calls Poster.post for that draft or appends a PostLogEntry
\* for it, a run_cycle that read the queued list before the remove and resumes
\* after it included.
C37_RemovedDraftNeverPosted ==
    [][\A i \in 1..Len(tweets) :
           tweets[i].status = "removed"
               => /\ ~(/\ last'.op = "run_cycle" /\ last'.stage = "analyze"
                       /\ last'.poster # <<>>
                       /\ last'.analysis.tweet_id = i)
                  /\ ~(/\ last'.op = "post_tweet_by_id"
                       /\ last'.poster # <<>>
                       /\ last'.id = i)
                  /\ \A k \in (Len(post_log) + 1)..Len(post_log') :
                         post_log'[k].tweet_id # i]_vars

\* C38 as stated: post_tweet_by_id has no suspension point between reading the
\* queued list and mark_posted, so of the invocations on one id at most one calls
\* Poster.post and the others return none: here, the invocation that follows one
\* that called Poster.post for the same id calls nothing and returns None.
C38_OnePosterCallPerId ==
    [][(/\ last.op = "post_tweet_by_id" /\ last.poster # <<>>
        /\ last'.op = "post_tweet_by_id" /\ last'.id = last.id)
           => (last'.poster = <<>> /\ last'.ret = None)]_vars

\* C38 (amended): post_tweet_by_id runs from reading the queued list to
\* mark_posted in one step. It calls Poster.post only for a draft that is queued
\* at that moment; when the call returns the draft is posted by the end of the
\* step, and a draft that is not queued never becomes queued again, so of the
\* invocations on one id at most one has Poster.post return, and every invocation
\* after that one returns None without calling Poster. An invocation whose
\* Poster.post raised leaves the draft queued and raises, and a later invocation
\* calls Poster.post again.
C38_OneSuccessfulPostPerId ==
    [][/\ \A i \in 1..Len(tweets) : tweets[i].status # "queued" => tweets'[i].status # "queued"
       /\ last'.op = "post_tweet_by_id" =>
              IF last'.poster # <<>>
              THEN /\ last'.id \in 1..Len(tweets)
                   /\ tweets[last'.id].status = "queued"
                   /\ Len(last'.poster) = 1
                   /\ IF last'.posted
                      THEN tweets'[last'.id].status = "posted" /\ last'.marked = <<last'.id>>
                      ELSE last'.ret.kind = "raise" /\ TablesUnchanged
              ELSE last'.ret = None /\ TablesUnchanged
       /\ (/\ last.op = "post_tweet_by_id" /\ last.posted
           /\ last'.op = "post_tweet_by_id" /\ last'.id = last.id)
              => (last'.poster = <<>> /\ last'.ret = None)]_vars

\* /post <id> came again for a draft that an earlier /post <id> had posted: it
\* returned None and called nothing
C38_SecondManualPostReturnedNone ==
    /\ last.op = "post_tweet_by_id" /\ last.outcome = "not_found"
    /\ last.id \in 1..Len(tweets)
    /\ tweets[last.id].status = "posted"
    /\ tweets[last.id].matched_trend = JStr("manual")
    /\ last.poster = <<>> /\ last.ret = None
    /\ Cardinality({k \in 1..Len(post_log) : post_log[k].tweet_id = last.id}) = 1

\* C31: an error raised by a Queue storage operation during run_cycle (mark_posted
\* or queue_size failing after Poster.post succeeded) propagates out of run_cycle
\* to the caller: the cycle does not return None and sends no failure notification.
C31_StorageErrorPropagates ==
    [][(last'.op = "run_cycle"
        /\ last'.outcome \in {"mark_posted_raised", "queue_size_raised"})
           => (last'.ret.kind = "raise" /\ last'.notes # <<"failed">>)]_vars

\* a step in which a handler calls run_cycle, rank_cycle or post_tweet_by_id
ExpensiveBegins ==
    /\ last'.proc \in Handlers
    /\ last'.op \in {"run_cycle", "rank_cycle", "post_tweet_by_id"}
    /\ last'.stage \in {"start", "call"}

\* C32: any two expensive invocations started from chat commands (run_cycle,
\* rank_cycle or post_tweet_by_id, on either bot) begin at least 30 seconds apart;
\* a command turned away by the rate limit invokes nothing on the Scheduler and
\* does not restart the 30-second window.
C32_ExpensiveCallsThirtySecondsApart ==
    [][/\ ExpensiveBegins =>
              \/ bot.began = NeverBegun
              \/ bot.monotonic - bot.began >= RATE_LIMIT_SECONDS
       /\ last'.outcome = "rate_limited" =>
              /\ TablesUnchanged /\ cyc' = cyc
              /\ ~last'.fetch /\ ~last'.llm /\ last'.poster = <<>>
              /\ bot'.last_expensive_call = bot.last_expensive_call
              /\ bot'.began = bot.began]_vars

\* C39: after any sequence and interleaving of chat adds (/queue, a plain text
\* message, !queue), removes and posts, the number of drafts with status queued
\* never exceeds max_queue_size, and an add turned away for capacity or for a text
\* over 280 characters persists nothing.
C39_QueuedWithinCapacity ==
    [][/\ QueueSize(tweets') <= config.max_queue_size
       /\ (last'.op \in {"cmd_queue", "handle_text"}
           /\ last'.outcome \in {"queue_full", "too_long"}) => TablesUnchanged
       /\ (last'.op \in {"cmd_queue", "handle_text"} /\ QueueFull(config, tweets))
              => tweets' = tweets
       /\ (last'.op \in {"cmd_queue", "handle_text"} /\ Len(last'.text) > MaxTweetLen)
              => tweets' = tweets]_vars

\* a plain text message was turned away because the queue was full, after an
\* earlier draft had been posted and another one queued in its place
C39_FullAfterPostAndAdd ==
    /\ last.op = "handle_text" /\ last.outcome = "queue_full"
    /\ QueueSize(tweets) = config.max_queue_size
    /\ \E i \in 1..Len(tweets) : tweets[i].status = "posted"

\* the sender of a handler step: the handler records it when it turns the sender
\* away, and sets the chat id to the sender's chat when it lets them in
SenderOf(d, b) == IF d.user # 0 THEN d.user ELSE b.chat_id

\* C40: when allowed_user_ids is not empty, no command or message from a user
\* outside it, on either bot, changes the Queue, triggers a trend fetch, a model
\* call or a post, or changes the chat that receives the notifications: the state
\* after such a command is the state before it.
C40_StrangersChangeNothing ==
    [][(/\ config.allowed_user_ids # {}
        /\ last'.proc \in Handlers
        /\ last'.stage \in {"start", "call"}
        /\ SenderOf(last', bot') \notin config.allowed_user_ids)
           => /\ TablesUnchanged /\ cyc' = cyc /\ bot' = bot
              /\ ~last'.fetch /\ ~last'.llm /\ last'.poster = <<>>]_vars

====
